---- MODULE Spec2Model ----
(***************************************************************************)
(* A model of the lease library: the lease table (one row per lease key),  *)
(* the LeaseManager's conditional writes against it, the leaseTaker's and  *)
(* the renewer's periodic ticks, and the Coordinator that runs them.       *)
(*                                                                         *)
(* SpecMgr drives the Manager interface directly, with every lease value a *)
(* caller can build.  Spec runs the coordinators of several workers, one   *)
(* store call at a time, so that the ticks of different workers interleave *)
(* between their list and their writes.                                    *)
(***************************************************************************)
EXTENDS Integers, Sequences, FiniteSets, TLC

VARIABLES
    store,      \* the lease table: key -> row, or NoRow
    call,       \* the last completed Manager call and what it did
    lastOk      \* per key, the counter the last successful renew or take
                \* returned since the row was last deleted (0: none yet)

VARIABLES
    allLeases,  \* per worker, leaseTaker.allLeases: key -> lease, or NoLease
    tkPc,       \* per worker, where its Take() tick stands
    tkPend,     \* per worker, the leases the tick still has to evict or take
    tkTick,     \* per worker, the path and the TakeLease calls of its Take() tick
    heldLeases, \* per worker, the renewer's heldLeases: key -> lease, or NoLease
    rnPc,       \* per worker, where its Renew() tick stands
    rnList,     \* per worker, the leases its Renew() tick listed
    rnPend,     \* per worker, the listed leases the tick still has to handle
    deleted     \* the keys whose row has been deleted at least once

VARIABLES
    age,          \* per worker and key, the time since the lastRenewal of the
                  \* lease in allLeases (it stops counting after ExpireAfter)
    untilTake,    \* per worker, the time until its next Take() tick
    sinceRenewal, \* per key, the time since the counter of the row last changed
                  \* (the row was created, renewed or taken)
    alive         \* per worker, whether its process runs

VARIABLES
    heldToken,  \* per worker and key, the concurrencyToken of the held lease
                \* (0: no lease is held under the key)
    nextToken,  \* the number of lists the renewers have decoded so far
    app,        \* per worker, the lease object the application works with and
                \* the outcome of its last Update
    mcall,      \* the Manager call in progress: its retry loop and the Backoff
    life,       \* per worker, where Start() and Stop() stand and the two loops
    meta,       \* a Lease object in the hands of the application: its metadata
                \* maps, and the last Set, SetAs or Del of each name
    shared      \* the Manager calls of the tasks of one Coordinator that run at
                \* the same time, and the attempts of the Backoff they share

mgrVars == <<store, call, lastOk>>
takerVars == <<allLeases, tkPc, tkPend, tkTick>>
renewerVars == <<heldLeases, rnPc, rnList, rnPend>>
timeVars == <<age, untilTake, sinceRenewal, alive>>
appVars == <<heldToken, nextToken, app, meta, shared>>
extVars == <<heldToken, nextToken, app, mcall, life, meta, shared>>
vars == <<store, call, lastOk, allLeases, tkPc, tkPend, tkTick,
          heldLeases, rnPc, rnList, rnPend, deleted,
          age, untilTake, sinceRenewal, alive,
          heldToken, nextToken, app, mcall, life, meta, shared>>

----------------------------------------------------------------------------
\* Bounds of the model

\* lease counters of the Manager-level specification range over 0..MaxCounter:
\* a renew or take that would pass the cap is not issued
MaxCounter == 2

\* lease counters of the coordinators' specifications stay in
\* 0..MaxLeaseCounter: a renew or take of a lease whose counter is at the cap
\* meets a store that is down
MaxLeaseCounter == 2

Workers == {"w1", "w2"}
Keys == {"k1", "k2", "k3", "k4"}

\* the owner written by EvictLease
NULL == "NULL"

Owners == Workers \cup {NULL, ""}

\* values of the one user attribute the model tracks; "" is 'not present'
Datas == {"", "d1"}

\* no item under the key
NoRow == [absent |-> TRUE]

\* an item whose reserved attributes are missing decodes to owner "", counter 0
EmptyRow == [owner |-> "", counter |-> 0, data |-> ""]

\* the Lease struct: schema fields and the user's metadata
Lease(k, o, c, d) == [key |-> k, owner |-> o, counter |-> c, data |-> d]

----------------------------------------------------------------------------
\* LeaseManager.  Each operation is a function of the stored row, the lease
\* passed in and the store's answer (down: every UpdateItem/PutItem/DeleteItem
\* of this call fails with a non-conditional error, so the retries run out);
\* it yields the error returned, the row left in the store and the caller's
\* lease object after the call.

\* the condition expression condUpdate builds from condLease, evaluated on a row
CondExp(condLease, row) ==
    /\ (condLease.counter > 0 => (row # NoRow /\ row.counter = condLease.counter))
    /\ (condLease.owner # "" => (row # NoRow /\ row.owner = condLease.owner))

\* updateLease: the retry loop around Client.UpdateItem; cond is the condition
\* of the request evaluated on the row, newRow the row the request writes
updateLease(row, cond, newRow, down) ==
    IF down THEN [err |-> "transient", row |-> row]
    ELSE IF ~cond THEN [err |-> "cond", row |-> row]
    ELSE [err |-> "nil", row |-> newRow]

\* condUpdate: SET leaseOwner, leaseCounter from updateLease under the
\* condition built from condLease; the other attributes of the row are kept
condUpdate(row, upLease, condLease, down) ==
    updateLease(row, CondExp(condLease, row),
                [owner |-> upLease.owner, counter |-> upLease.counter,
                 data |-> IF row = NoRow THEN "" ELSE row.data],
                down)

RenewLease(row, lease, down) ==
    LET clease == [lease EXCEPT !.counter = lease.counter + 1]
        res == condUpdate(row, clease, lease, down)
    IN [err |-> res.err, row |-> res.row,
        lease |-> IF res.err = "nil" THEN [lease EXCEPT !.counter = clease.counter]
                  ELSE lease]

EvictLease(row, lease, down) ==
    LET clease == [lease EXCEPT !.owner = NULL]
        res == condUpdate(row, clease, lease, down)
    IN [err |-> res.err, row |-> res.row,
        lease |-> IF res.err = "nil" THEN [lease EXCEPT !.owner = clease.owner]
                  ELSE lease]

\* (mutant) the taker becomes the owner and the counter is left as it was
TakeLeaseNoBump(w, row, lease, down) ==
    LET clease == [lease EXCEPT !.owner = w]
        res == condUpdate(row, clease, lease, down)
    IN [err |-> res.err, row |-> res.row,
        lease |-> IF res.err = "nil" THEN clease ELSE lease]

\* (mutant) the lease object is changed before the store answers
TakeLeaseEager(w, row, lease, down) ==
    LET clease == [lease EXCEPT !.counter = lease.counter + 1, !.owner = w]
        res == condUpdate(row, clease, lease, down)
    IN [err |-> res.err, row |-> res.row, lease |-> clease]

TakeLease(w, row, lease, down) ==
    LET clease == [lease EXCEPT !.counter = lease.counter + 1, !.owner = w]
        res == condUpdate(row, clease, lease, down)
    IN [err |-> res.err, row |-> res.row,
        lease |-> IF res.err = "nil"
                  THEN [lease EXCEPT !.owner = clease.owner, !.counter = clease.counter]
                  ELSE lease]

\* (mutant) the PutItem carries no condition
CreateLeaseAlways(w, row, lease, down) ==
    LET l1 == IF lease.owner = "" THEN [lease EXCEPT !.owner = w] ELSE lease
        l2 == IF l1.counter = 0 THEN [l1 EXCEPT !.counter = 1] ELSE l1
    IN IF down THEN [err |-> "transient", row |-> row, lease |-> l2]
       ELSE [err |-> "nil", lease |-> l2,
             row |-> [owner |-> l2.owner, counter |-> l2.counter, data |-> l2.data]]

\* CreateLease: defaults, then a conditional PutItem that replaces the item
CreateLease(w, row, lease, down) ==
    LET l1 == IF lease.owner = "" THEN [lease EXCEPT !.owner = w] ELSE lease
        l2 == IF l1.counter = 0 THEN [l1 EXCEPT !.counter = 1] ELSE l1
        cond == row = NoRow \/ (row.counter = l2.counter /\ row.owner = l2.owner)
    IN IF down THEN [err |-> "transient", row |-> row, lease |-> l2]
       ELSE IF ~cond THEN [err |-> "cond", row |-> row, lease |-> l2]
       ELSE [err |-> "nil", lease |-> l2,
             row |-> [owner |-> l2.owner, counter |-> l2.counter, data |-> l2.data]]

\* DeleteLease: a conditional DeleteItem
DeleteLease(row, lease, down) ==
    LET cond == row = NoRow \/ row.owner = lease.owner
    IN IF down THEN [err |-> "transient", row |-> row, lease |-> lease]
       ELSE IF ~cond THEN [err |-> "cond", row |-> row, lease |-> lease]
       ELSE [err |-> "nil", row |-> NoRow, lease |-> lease]

\* the names of the schema attributes: serializer.schemakeys
schemakeys == {"leaseKey", "leaseOwner", "leaseCounter"}

\* the names a user can give a metadata field in the model: the one user
\* attribute and the schema attributes other than the hash key
FieldNames == {"data", "leaseOwner", "leaseCounter"}

\* a lease object with its metadata: extra is the set of schema names the user
\* Set a field under (extrafields holds them beside the user attribute), removed
\* is removedfields
WithFields(lease, extra, removed) ==
    [key |-> lease.key, owner |-> lease.owner, counter |-> lease.counter,
     data |-> lease.data, extra |-> extra, removed |-> removed]

\* Encode: the item of a lease; the schema attributes come from the fields of
\* the lease, and the extra fields under a schema name are dropped
Encode(lease) ==
    LET names == schemakeys
                 \cup (IF lease.data # "" THEN {"data"} ELSE {})
                 \cup (lease.extra \ schemakeys)
    IN [a \in names |->
           IF a = "leaseKey" THEN lease.key
           ELSE IF a = "leaseOwner" THEN lease.owner
           ELSE IF a = "leaseCounter" THEN lease.counter
           ELSE lease.data]

\* (mutant) no name is reserved
isReservedNone(a) == FALSE

\* UpdateLease: the names it keeps out of the update expression
isReserved(a) == a = "leaseKey" \/ a = "leaseOwner" \/ a = "leaseCounter"

\* the row after SET of the attributes sets from item and REMOVE of the
\* attributes rms; an attribute that is removed is absent ("" or 0)
patchRow(base, item, sets, rms) ==
    [owner |-> IF "leaseOwner" \in sets THEN item["leaseOwner"]
               ELSE IF "leaseOwner" \in rms THEN "" ELSE base.owner,
     counter |-> IF "leaseCounter" \in sets THEN item["leaseCounter"]
                 ELSE IF "leaseCounter" \in rms THEN 0 ELSE base.counter,
     data |-> IF "data" \in sets THEN item["data"]
              ELSE IF "data" \in rms THEN "" ELSE base.data]

\* UpdateLease: SET the non-reserved fields of the lease, REMOVE its removed
\* fields that are not reserved; no condition.  With nothing to set or remove
\* no request is made.  An item that does not exist is created by the store.
\* A request naming an attribute in both clauses is refused by the store.
UpdateLease(row, lease, down) ==
    LET base == IF row = NoRow THEN EmptyRow ELSE row
        item == Encode(lease)
        sets == IF lease.data # "" \/ lease.extra # {}
                THEN {a \in DOMAIN item : ~isReserved(a)} ELSE {}
        rms == {f \in lease.removed : ~isReserved(f)}
        res == IF sets = {} /\ rms = {} THEN [err |-> "nil", row |-> row]
               ELSE updateLease(row, TRUE, patchRow(base, item, sets, rms),
                                down \/ sets \cap rms # {})
    IN [err |-> res.err, row |-> res.row, lease |-> lease]

----------------------------------------------------------------------------
\* The Manager interface driven directly, on one key, with every lease value

MgrLeases == {Lease("k1", o, c, "") : o \in Owners, c \in 0..MaxCounter}
MgrDataLeases == {Lease("k1", o, c, d) : o \in Owners, c \in 0..MaxCounter, d \in Datas}

\* no lease under the key in a worker's map
NoLease == [none |-> TRUE]

\* a Take() tick that has done nothing yet
NoList == [k \in Keys |-> NoLease]
NoTick == [path |-> "none", takes |-> 0]

NoCall ==
    [op |-> "none", w |-> "", before |-> NoRow, after |-> NoRow, err |-> "nil",
     pre |-> NoRow]

\* the record of a completed call: the operation, the lease object before and
\* after it, the error returned and the row at the moment of the request
Done(op, w, lease, res) ==
    /\ store' = [store EXCEPT ![lease.key] = res.row]
    /\ call' = [op |-> op, w |-> w, before |-> lease, after |-> res.lease,
                err |-> res.err, pre |-> store[lease.key]]
    /\ lastOk' = [lastOk EXCEPT ![lease.key] =
                     IF res.err # "nil" THEN @
                     ELSE IF op \in {"renew", "take"} THEN res.lease.counter
                     ELSE IF op = "delete" THEN 0
                     ELSE @]

\* the application holds no lease object
NoApp == [lease |-> NoLease, token |-> 0, kept |-> FALSE, res |-> "none", called |-> FALSE]

\* no Manager call is in progress and the Backoff is reset
NoMcall ==
    [op |-> "none", w |-> "", lease |-> NoLease, pc |-> "idle", attempt |-> 0,
     calls |-> 0, fails |-> 0, sleeps |-> 0, last |-> "none", err |-> "nil",
     pre |-> NoRow, ret |-> NoLease]

\* a Coordinator that New() returned: Start() was not called
\* (takeErr, renewErr: the loop has logged the error of its latest tick)
NoLife ==
    [co |-> "new", taker |-> "none", renewer |-> "none", table |-> "none",
     takeErr |-> FALSE, renewErr |-> FALSE]

\* no Lease object is in the hands of the application
NoMeta == [none |-> TRUE]

\* the tasks of a Coordinator that call its one Manager: the goroutines of the
\* two loops and the application
Tasks == {"taker", "renewer", "user"}

\* a task that is not in a Manager call
NoTaskCall == [op |-> "none", pc |-> "idle", calls |-> 0, err |-> "nil", ok |-> FALSE,
               ret |-> "none"]

\* no task is in a Manager call and the Backoff is reset
NoShared == [attempt |-> 0, call |-> [t \in Tasks |-> NoTaskCall]]

\* a specification without the application's updates, the retry loops and
\* Start() and Stop()
NoExt ==
    /\ heldToken = [w \in Workers |-> [k \in Keys |-> 0]]
    /\ nextToken = 0
    /\ app = [w \in Workers |-> NoApp]
    /\ mcall = NoMcall
    /\ life = [w \in Workers |-> NoLife]
    /\ meta = NoMeta
    /\ shared = NoShared

\* the clocks of a specification without time
NoTime ==
    /\ age = [w \in Workers |-> [k \in Keys |-> 0]]
    /\ untilTake = [w \in Workers |-> 0]
    /\ sinceRenewal = [k \in Keys |-> 0]
    /\ alive = [w \in Workers |-> TRUE]

\* the coordinators are not running
Stopped ==
    /\ allLeases = [w \in Workers |-> NoList]
    /\ tkPc = [w \in Workers |-> "idle"]
    /\ tkPend = [w \in Workers |-> {}]
    /\ tkTick = [w \in Workers |-> NoTick]
    /\ heldLeases = [w \in Workers |-> NoList]
    /\ rnPc = [w \in Workers |-> "idle"]
    /\ rnList = [w \in Workers |-> NoList]
    /\ rnPend = [w \in Workers |-> {}]
    /\ deleted = {}
    /\ NoTime
    /\ NoExt

InitMgr ==
    /\ store = [k \in Keys |-> NoRow]
    /\ call = NoCall
    /\ lastOk = [k \in Keys |-> 0]
    /\ Stopped

\* (a renew of a lease without owner would send an empty leaseOwner, which the
\* store may refuse: that answer is the one of down = TRUE, and such renews
\* are left out)
MgrRenew ==
    \E l \in MgrLeases, down \in BOOLEAN :
        /\ l.counter < MaxCounter
        /\ l.owner # ""
        /\ Done("renew", "", l, RenewLease(store[l.key], l, down))

MgrEvict ==
    \E l \in MgrLeases, down \in BOOLEAN :
        Done("evict", "", l, EvictLease(store[l.key], l, down))

MgrTake ==
    \E w \in Workers, l \in MgrLeases, down \in BOOLEAN :
        /\ l.counter < MaxCounter
        /\ Done("take", w, l, TakeLease(w, store[l.key], l, down))

MgrCreate ==
    \E w \in Workers, l \in MgrDataLeases, down \in BOOLEAN :
        Done("create", w, l, CreateLease(w, store[l.key], l, down))

\* Coordinator.Delete of worker w is DeleteLease of its Manager
MgrDelete ==
    \E w \in Workers, l \in MgrLeases, down \in BOOLEAN :
        Done("delete", w, l, DeleteLease(store[l.key], l, down))

\* (the metadata under the schema names is left to SpecFields)
MgrUpdate ==
    \E l \in MgrDataLeases, removed \in SUBSET {"data"}, down \in BOOLEAN :
        LET lease == WithFields(l, {}, removed)
        IN Done("update", "", lease, UpdateLease(store[l.key], lease, down))

NextMgr ==
    \/ MgrRenew /\ UNCHANGED <<takerVars, renewerVars, deleted, timeVars, extVars>>
    \/ MgrEvict /\ UNCHANGED <<takerVars, renewerVars, deleted, timeVars, extVars>>
    \/ MgrTake /\ UNCHANGED <<takerVars, renewerVars, deleted, timeVars, extVars>>
    \/ MgrCreate /\ UNCHANGED <<takerVars, renewerVars, deleted, timeVars, extVars>>
    \/ MgrDelete /\ UNCHANGED <<takerVars, renewerVars, deleted, timeVars, extVars>>
    \/ MgrUpdate /\ UNCHANGED <<takerVars, renewerVars, deleted, timeVars, extVars>>

SpecMgr == InitMgr /\ [][NextMgr]_vars

----------------------------------------------------------------------------
\* UpdateLease on every row, with every lease object and every metadata

FieldRows ==
    {NoRow} \cup {[owner |-> o, counter |-> c, data |-> d] :
                     o \in Owners, c \in 0..MaxCounter, d \in Datas}

InitFields ==
    /\ \E row \in FieldRows : store = [k \in Keys |-> IF k = "k1" THEN row ELSE NoRow]
    /\ call = NoCall
    /\ lastOk = [k \in Keys |-> 0]
    /\ Stopped

\* one UpdateLease on the row
FieldsUpdate ==
    \E l \in MgrDataLeases, extra \in SUBSET (FieldNames \ {"data"}),
       removed \in SUBSET FieldNames, down \in BOOLEAN :
        LET lease == WithFields(l, extra, removed)
        IN /\ call = NoCall
           /\ Done("update", "", lease, UpdateLease(store[l.key], lease, down))

NextFields ==
    FieldsUpdate /\ UNCHANGED <<takerVars, renewerVars, deleted, timeVars, extVars>>

SpecFields == InitFields /\ [][NextFields]_vars

----------------------------------------------------------------------------
\* Serializer and ListLeases

\* Decode: the lease of an item; lastRenewal is the time of the decode, so the
\* lease is not expired (expired: more than ExpireAfter has passed since
\* lastRenewal)
Decode(k, row) ==
    [key |-> k, owner |-> row.owner, counter |-> row.counter, data |-> row.data,
     expired |-> FALSE]

\* ListLeases: every item of the table, decoded
ListLeases == [k \in Keys |-> IF store[k] = NoRow THEN NoLease ELSE Decode(k, store[k])]

KeysOf(m) == {k \in Keys : m[k] # NoLease}

hasNoOwner(lease) == lease.owner = NULL \/ lease.owner = ""

----------------------------------------------------------------------------
\* leaseTaker

Config_MaxLeasesToStealAtOneTime == 1

min(i, j) == IF i > j THEN j ELSE i

\* updateLeases, the new allLeases: a listed lease replaces the remembered one
\* when the key is new or its counter changed; a remembered lease with the
\* same counter is kept, with the listed owner when it is expired
updateLeases(old, list) ==
    [k \in Keys |->
        IF list[k] = NoLease THEN NoLease
        ELSE IF old[k] = NoLease THEN list[k]
        ELSE IF old[k].counter # list[k].counter THEN list[k]
        ELSE IF old[k].expired THEN [old[k] EXCEPT !.owner = list[k].owner]
        ELSE old[k]]

\* (mutant) EvictLease is called for an expired lease whose counter changed
leasesToEvictAnyCounter(old, list) ==
    {k \in Keys : /\ list[k] # NoLease
                  /\ old[k] # NoLease
                  /\ old[k].expired}

\* updateLeases, the leases it calls EvictLease for
leasesToEvict(old, list) ==
    {k \in Keys : /\ list[k] # NoLease
                  /\ old[k] # NoLease
                  /\ old[k].counter = list[k].counter
                  /\ old[k].expired}

\* computeLeaseCounts: leases per owner, this worker included
computeLeaseCounts(all, me) ==
    LET owners == {all[k].owner : k \in {x \in KeysOf(all) : ~hasNoOwner(all[x])}}
    IN [o \in owners \cup {me} |-> Cardinality({k \in KeysOf(all) : all[k].owner = o})]

\* (mutant) the target is numLeases / numWorkers rounded down
targetFloor(all, me) ==
    LET numWorkers == Cardinality(DOMAIN computeLeaseCounts(all, me))
        numLeases == Cardinality(KeysOf(all))
    IN IF numLeases > numWorkers THEN numLeases \div numWorkers ELSE 1

\* Take: the target per worker (the listed leases are the keys of allLeases)
target(all, me) ==
    LET numWorkers == Cardinality(DOMAIN computeLeaseCounts(all, me))
        numLeases == Cardinality(KeysOf(all))
    IN IF numLeases > numWorkers
       THEN (numLeases \div numWorkers)
            + (IF numLeases % numWorkers # 0 THEN 1 ELSE 0)
       ELSE 1

\* (mutant) the leases this worker has are not counted
numToReachTargetAll(all, me) == target(all, me)

\* Take: the leases this worker needs to reach the target
numToReachTarget(all, me) == target(all, me) - computeLeaseCounts(all, me)[me]

\* (mutant) the number of leases to take is not limited to the expired ones
numExpiredToTakeAll(needed, numExpired) == needed

\* Take: the number of expired leases to take, at most all of them
numExpiredToTake(needed, numExpired) ==
    IF needed > numExpired THEN numExpired ELSE needed

getExpiredLeases(all) == {k \in KeysOf(all) : all[k].expired \/ hasNoOwner(all[k])}

\* chooseLeasesToSteal: the workers the loop over leaseCounts can end on
mostLoadedWorkers(leaseCounts) ==
    {o \in DOMAIN leaseCounts : \A p \in DOMAIN leaseCounts : leaseCounts[p] <= leaseCounts[o]}

\* (mutant) nothing is stolen
numLeasesToStealNone(leaseCounts, mostLoadedWorker, needed, tgt) == 0

\* (mutant) MaxLeasesToStealAtOneTime is not applied
numLeasesToStealUncapped(leaseCounts, mostLoadedWorker, needed, tgt) ==
    LET count == leaseCounts[mostLoadedWorker]
        overTarget == count - tgt
        n0 == min(needed, overTarget)
        n1 == IF needed > 1 /\ n0 = 0 THEN 1 ELSE n0
    IN IF count >= tgt THEN n1 ELSE 0

\* (mutant) nothing is stolen from a worker that has just the target
numLeasesToStealOverOnly(leaseCounts, mostLoadedWorker, needed, tgt) ==
    LET count == leaseCounts[mostLoadedWorker]
        overTarget == count - tgt
    IN IF count >= tgt
       THEN min(min(needed, overTarget), Config_MaxLeasesToStealAtOneTime)
       ELSE 0

\* chooseLeasesToSteal: how many leases to steal from mostLoadedWorker
numLeasesToSteal(leaseCounts, mostLoadedWorker, needed, tgt) ==
    LET count == leaseCounts[mostLoadedWorker]
        overTarget == count - tgt
        n0 == min(needed, overTarget)
        n1 == IF needed > 1 /\ n0 = 0 THEN 1 ELSE n0
    IN IF count >= tgt THEN min(n1, Config_MaxLeasesToStealAtOneTime) ELSE 0

SubsetsOfSize(S, n) == {T \in SUBSET S : Cardinality(T) = n}

\* the sets of leases Take can decide to take, with the path it took
leasesToTake(all, me) ==
    LET need == numToReachTarget(all, me)
        expiredLeases == getExpiredLeases(all)
        leaseCounts == computeLeaseCounts(all, me)
    IN IF need <= 0 THEN {[path |-> "enough", keys |-> {}]}
       ELSE IF expiredLeases # {}
       THEN {[path |-> "expired", keys |-> T] :
                T \in SubsetsOfSize(expiredLeases,
                                     numExpiredToTake(need, Cardinality(expiredLeases)))}
       ELSE UNION {
              LET n == numLeasesToSteal(leaseCounts, m, need, target(all, me))
                  candidates == {k \in KeysOf(all) : all[k].owner = m}
              IN IF n <= 0 THEN {[path |-> "steal", keys |-> {}]}
                 ELSE {[path |-> "steal", keys |-> T] : T \in SubsetsOfSize(candidates, n)}
              : m \in mostLoadedWorkers(leaseCounts)}

\* time passes: a remembered lease is now older than ExpireAfter
Expire(w, k) ==
    /\ allLeases[w][k] # NoLease
    /\ ~allLeases[w][k].expired
    /\ allLeases' = [allLeases EXCEPT ![w][k].expired = TRUE]
    /\ UNCHANGED <<mgrVars, tkPc, tkPend, tkTick, renewerVars, deleted>>

\* Take: ListLeases and the local part of updateLeases
TakeList(w) ==
    /\ tkPc[w] = "idle"
    /\ allLeases' = [allLeases EXCEPT ![w] = updateLeases(allLeases[w], ListLeases)]
    /\ tkPend' = [tkPend EXCEPT ![w] = leasesToEvict(allLeases[w], ListLeases)]
    /\ tkPc' = [tkPc EXCEPT ![w] = IF tkPend'[w] = {} THEN "choose" ELSE "evict"]
    /\ UNCHANGED <<mgrVars, tkTick, renewerVars, deleted>>

\* updateLeases: one EvictLease call
TakeEvict(w, k, down) ==
    LET res == EvictLease(store[k], allLeases[w][k], down)
    IN /\ tkPc[w] = "evict"
       /\ k \in tkPend[w]
       /\ store' = [store EXCEPT ![k] = res.row]
       /\ allLeases' = [allLeases EXCEPT ![w][k] = res.lease]
       /\ tkPend' = [tkPend EXCEPT ![w] = @ \ {k}]
       /\ tkPc' = [tkPc EXCEPT ![w] = IF tkPend'[w] = {} THEN "choose" ELSE "evict"]
       /\ UNCHANGED <<call, lastOk, tkTick, renewerVars, deleted>>

\* Take: target, need and the choice of the leases to take
TakeChoose(w) ==
    /\ tkPc[w] = "choose"
    /\ \E c \in leasesToTake(allLeases[w], w) :
          /\ tkPend' = [tkPend EXCEPT ![w] = c.keys]
          /\ tkPc' = [tkPc EXCEPT ![w] = IF c.keys = {} THEN "idle" ELSE "take"]
          /\ tkTick' = [tkTick EXCEPT ![w] = IF c.keys = {} THEN NoTick
                                           ELSE [path |-> c.path, takes |-> 0]]
    /\ UNCHANGED <<mgrVars, allLeases, renewerVars, deleted>>

\* Take: one TakeLease call
TakeTake(w, k, down) ==
    LET res == TakeLease(w, store[k], allLeases[w][k], down)
    IN /\ tkPc[w] = "take"
       /\ k \in tkPend[w]
       /\ allLeases[w][k].counter >= MaxLeaseCounter => down
       /\ store' = [store EXCEPT ![k] = res.row]
       /\ allLeases' = [allLeases EXCEPT ![w][k] = res.lease]
       /\ tkPend' = [tkPend EXCEPT ![w] = @ \ {k}]
       /\ tkPc' = [tkPc EXCEPT ![w] = IF tkPend'[w] = {} THEN "idle" ELSE "take"]
       /\ tkTick' = [tkTick EXCEPT ![w] = IF tkPend'[w] = {} THEN NoTick
                                           ELSE [@ EXCEPT !.takes = @ + 1]]
       /\ UNCHANGED <<call, lastOk, renewerVars, deleted>>

----------------------------------------------------------------------------
\* The renewer (leaseHolder)

\* (mutant) the held leases that are no longer in the table are kept
removeDeletedKept(held, list) == held

\* Renew: the held leases that are no longer in the table are dropped
removeDeleted(held, list) ==
    [k \in Keys |-> IF list[k] = NoLease THEN NoLease ELSE held[k]]

\* (mutant) a lease whose renew call failed is dropped
afterListedDropFailed(held, me, lease, renewed) ==
    IF lease.owner = me /\ renewed # lease
    THEN [held EXCEPT ![lease.key] = renewed]
    ELSE [held EXCEPT ![lease.key] = NoLease]

\* Renew: the held set after a listed lease is handled; renewed is the lease
\* object after the renew call
afterListed(held, me, lease, renewed) ==
    IF lease.owner = me
    THEN [held EXCEPT ![lease.key] = renewed]
    ELSE [held EXCEPT ![lease.key] = NoLease]

\* the renew call of Renew: Manager.RenewLease on the listed lease
renewLease(row, lease, down) == RenewLease(row, lease, down)

\* Renew: ListLeases, and the held leases that were deleted are dropped
RenewList(w) ==
    /\ rnPc[w] = "idle"
    /\ rnList' = [rnList EXCEPT ![w] = ListLeases]
    /\ heldLeases' = [heldLeases EXCEPT ![w] = removeDeleted(@, ListLeases)]
    /\ rnPend' = [rnPend EXCEPT ![w] = KeysOf(ListLeases)]
    /\ rnPc' = [rnPc EXCEPT ![w] = IF rnPend'[w] = {} THEN "idle" ELSE "renew"]
    /\ UNCHANGED <<mgrVars, takerVars, deleted>>

\* Renew: one listed lease; it is renewed and held when this worker owns it,
\* and dropped from the held set otherwise
RenewStep(w, k, down) ==
    LET lease == rnList[w][k]
        res == IF lease.owner = w THEN renewLease(store[k], lease, down)
               ELSE [err |-> "nil", row |-> store[k], lease |-> lease]
    IN /\ rnPc[w] = "renew"
       /\ k \in rnPend[w]
       /\ (lease.owner = w /\ lease.counter >= MaxLeaseCounter) => down
       /\ lease.owner # w => ~down
       /\ store' = [store EXCEPT ![k] = res.row]
       /\ heldLeases' = [heldLeases EXCEPT ![w] = afterListed(@, w, lease, res.lease)]
       /\ rnPend' = [rnPend EXCEPT ![w] = @ \ {k}]
       /\ rnPc' = [rnPc EXCEPT ![w] = IF rnPend'[w] = {} THEN "idle" ELSE "renew"]
       /\ rnList' = [rnList EXCEPT ![w] = IF rnPend'[w] = {} THEN NoList ELSE @]
       /\ UNCHANGED <<call, lastOk, takerVars, deleted>>

\* GetHeldLeases: copies of the held leases
GetHeldLeases(w) == {heldLeases[w][k] : k \in KeysOf(heldLeases[w])}

----------------------------------------------------------------------------
\* Coordinator: the calls of the application

NewLease(k) == Lease(k, "", 0, "")

\* Create(NewLease(k))
Create(w, k) ==
    LET res == CreateLease(w, store[k], NewLease(k), FALSE)
    IN /\ store' = [store EXCEPT ![k] = res.row]
       /\ UNCHANGED <<call, lastOk, takerVars, renewerVars, deleted>>

\* Delete of a lease obtained from GetHeldLeases
Delete(w, lease) ==
    LET res == DeleteLease(store[lease.key], lease, FALSE)
    IN /\ lease \in GetHeldLeases(w)
       /\ lease.key \notin deleted
       /\ store' = [store EXCEPT ![lease.key] = res.row]
       /\ deleted' = IF res.err = "nil" /\ store[lease.key] # NoRow
                     THEN deleted \cup {lease.key} ELSE deleted
       /\ UNCHANGED <<call, lastOk, takerVars, renewerVars>>

----------------------------------------------------------------------------
\* Several coordinators on one table

\* the keys the application creates leases for
AppKeys == {"k1"}

Init ==
    /\ store = [k \in Keys |-> NoRow]
    /\ call = NoCall
    /\ lastOk = [k \in Keys |-> 0]
    /\ Stopped

Next ==
    \/ \E w \in Workers : TakeList(w) /\ UNCHANGED <<timeVars, extVars>>
    \/ \E w \in Workers, k \in Keys : Expire(w, k) /\ UNCHANGED <<timeVars, extVars>>
    \/ \E w \in Workers, k \in Keys, down \in BOOLEAN : TakeEvict(w, k, down) /\ UNCHANGED <<timeVars, extVars>>
    \/ \E w \in Workers : TakeChoose(w) /\ UNCHANGED <<timeVars, extVars>>
    \/ \E w \in Workers, k \in Keys, down \in BOOLEAN : TakeTake(w, k, down) /\ UNCHANGED <<timeVars, extVars>>
    \/ \E w \in Workers : RenewList(w) /\ UNCHANGED <<timeVars, extVars>>
    \/ \E w \in Workers, k \in Keys, down \in BOOLEAN : RenewStep(w, k, down) /\ UNCHANGED <<timeVars, extVars>>
    \/ \E w \in Workers, k \in AppKeys : Create(w, k) /\ UNCHANGED <<timeVars, extVars>>
    \/ \E w \in Workers : \E l \in GetHeldLeases(w) : Delete(w, l) /\ UNCHANGED <<timeVars, extVars>>

Spec == Init /\ [][Next]_vars

----------------------------------------------------------------------------
\* Workers that contend for one lease: every worker has listed the same row and
\* is about to call TakeLease with the lease it listed

TakeRows ==
    {[owner |-> o, counter |-> c, data |-> d] :
        o \in Owners, c \in 0..MaxLeaseCounter, d \in Datas}

InitTake ==
    /\ \E row \in TakeRows : store = [k \in Keys |-> IF k = "k1" THEN row ELSE NoRow]
    /\ call = NoCall
    /\ lastOk = [k \in Keys |-> 0]
    /\ allLeases = [w \in Workers |-> ListLeases]
    /\ tkPc = [w \in Workers |-> "take"]
    /\ tkPend = [w \in Workers |-> {"k1"}]
    /\ \E p \in {"expired", "steal"} :
          tkTick = [w \in Workers |-> [path |-> p, takes |-> 0]]
    /\ heldLeases = [w \in Workers |-> NoList]
    /\ rnPc = [w \in Workers |-> "idle"]
    /\ rnList = [w \in Workers |-> NoList]
    /\ rnPend = [w \in Workers |-> {}]
    /\ deleted = {}
    /\ NoTime
    /\ NoExt

NextTake ==
    \E w \in Workers, down \in BOOLEAN : TakeTake(w, "k1", down) /\ UNCHANGED <<timeVars, extVars>>

SpecTake == InitTake /\ [][NextTake]_vars

----------------------------------------------------------------------------
\* One renewer over a table that holds any leases, with any held set

RenewKeys == {"k1", "k2", "k3"}

RenewRows ==
    {NoRow} \cup {[owner |-> o, counter |-> 1, data |-> ""] : o \in Workers \cup {NULL}}

InitRenew ==
    /\ \E rows \in [RenewKeys -> RenewRows] :
          store = [k \in Keys |-> IF k \in RenewKeys THEN rows[k] ELSE NoRow]
    /\ call = NoCall
    /\ lastOk = [k \in Keys |-> 0]
    /\ allLeases = [w \in Workers |-> NoList]
    /\ tkPc = [w \in Workers |-> "idle"]
    /\ tkPend = [w \in Workers |-> {}]
    /\ tkTick = [w \in Workers |-> NoTick]
    /\ \E H \in SUBSET RenewKeys :
          heldLeases = [w \in Workers |->
                          [k \in Keys |->
                              IF w = "w1" /\ k \in H
                              THEN Decode(k, [owner |-> w, counter |-> 1, data |-> ""])
                              ELSE NoLease]]
    /\ rnPc = [w \in Workers |-> "idle"]
    /\ rnList = [w \in Workers |-> NoList]
    /\ rnPend = [w \in Workers |-> {}]
    /\ deleted = {}
    /\ NoTime
    /\ NoExt

NextRenew ==
    \/ RenewList("w1") /\ UNCHANGED <<timeVars, extVars>>
    \/ \E k \in Keys, down \in BOOLEAN : RenewStep("w1", k, down) /\ UNCHANGED <<timeVars, extVars>>

SpecRenew == InitRenew /\ [][NextRenew]_vars

----------------------------------------------------------------------------
\* Takers over a table of leases that are all owned

InitSteal ==
    /\ \E o \in [Keys -> Workers] :
          store = [k \in Keys |-> [owner |-> o[k], counter |-> 1, data |-> ""]]
    /\ call = NoCall
    /\ lastOk = [k \in Keys |-> 0]
    /\ Stopped

NextSteal ==
    \/ TakeList("w1") /\ UNCHANGED <<timeVars, extVars>>
    \/ \E k \in Keys : Expire("w1", k) /\ UNCHANGED <<timeVars, extVars>>
    \/ \E k \in Keys, down \in BOOLEAN : TakeEvict("w1", k, down) /\ UNCHANGED <<timeVars, extVars>>
    \/ TakeChoose("w1") /\ UNCHANGED <<timeVars, extVars>>
    \/ \E k \in Keys, down \in BOOLEAN : TakeTake("w1", k, down) /\ UNCHANGED <<timeVars, extVars>>

SpecSteal == InitSteal /\ [][NextSteal]_vars

----------------------------------------------------------------------------
\* Time: the intervals of the Coordinator, in units of epsilon

ExpireAfter == 2
epsilon == 1

\* Start: the taker's interval
takerInterval == (ExpireAfter + epsilon) * 2

\* (mutant) a lease never expires
isExpiredNever(since) == FALSE

\* isExpired: more than ExpireAfter has passed since lastRenewal
isExpired(since) == since > ExpireAfter

\* the window of a failover
FailoverBound == 2 * takerInterval + ExpireAfter + epsilon

\* one unit of time passes, while no Take() runs and none is due; the leases of
\* allLeases grow older
Advance(takers) ==
    /\ \A w \in takers : tkPc[w] = "idle" /\ untilTake[w] > 0
    /\ age' = [w \in Workers |-> [k \in Keys |->
                  IF allLeases[w][k] = NoLease THEN 0
                  ELSE min(age[w][k] + 1, ExpireAfter + 1)]]
    /\ allLeases' = [w \in Workers |-> [k \in Keys |->
                        IF allLeases[w][k] = NoLease THEN NoLease
                        ELSE [allLeases[w][k] EXCEPT !.expired = isExpired(age'[w][k])]]]
    /\ untilTake' = [w \in Workers |-> IF untilTake[w] > 0 THEN untilTake[w] - 1 ELSE 0]
    /\ sinceRenewal' = [k \in Keys |->
                          IF store[k] = NoRow THEN 0
                          ELSE min(sinceRenewal[k] + 1, FailoverBound + 1)]
    /\ UNCHANGED <<mgrVars, tkPc, tkPend, tkTick, renewerVars, deleted, alive, extVars>>

\* loop: the ticker of the taker fires and Take() starts; the leases that
\* updateLeases replaces by the listed ones have lastRenewal = now
TakeTick(w) ==
    /\ alive[w]
    /\ untilTake[w] = 0
    /\ TakeList(w)
    /\ untilTake' = [untilTake EXCEPT ![w] = takerInterval]
    /\ age' = [age EXCEPT ![w] = [k \in Keys |->
                  IF /\ ListLeases[k] # NoLease
                     /\ (allLeases[w][k] = NoLease
                         \/ allLeases[w][k].counter # ListLeases[k].counter)
                  THEN 0 ELSE age[w][k]]]
    /\ UNCHANGED <<sinceRenewal, alive, extVars>>

\* the renewer of a running worker renews a lease: the row is renewed now
RenewNow(w, k, down) ==
    /\ alive[w]
    /\ RenewStep(w, k, down)
    /\ sinceRenewal' = [sinceRenewal EXCEPT ![k] = IF store'[k] # store[k] THEN 0 ELSE @]
    /\ UNCHANGED <<age, untilTake, alive, extVars>>

\* the process of a worker dies
Die(w) ==
    /\ alive[w]
    /\ alive' = [alive EXCEPT ![w] = FALSE]
    /\ UNCHANGED <<mgrVars, takerVars, renewerVars, deleted, age, untilTake, sinceRenewal, extVars>>

----------------------------------------------------------------------------
\* Failover: w1 owns leases and renews them until it dies, w2 runs its taker
\* against a store that answers

InitFailover ==
    /\ \E row \in {NoRow, [owner |-> "w1", counter |-> 1, data |-> ""]} :
          store = [k \in Keys |->
                      IF k = "k1" THEN [owner |-> "w1", counter |-> 1, data |-> ""]
                      ELSE IF k = "k2" THEN row ELSE NoRow]
    /\ call = NoCall
    /\ lastOk = [k \in Keys |-> 0]
    /\ allLeases = [w \in Workers |-> NoList]
    /\ tkPc = [w \in Workers |-> "idle"]
    /\ tkPend = [w \in Workers |-> {}]
    /\ tkTick = [w \in Workers |-> NoTick]
    /\ heldLeases = [w \in Workers |-> NoList]
    /\ rnPc = [w \in Workers |-> "idle"]
    /\ rnList = [w \in Workers |-> NoList]
    /\ rnPend = [w \in Workers |-> {}]
    /\ deleted = {}
    /\ age = [w \in Workers |-> [k \in Keys |-> 0]]
    /\ \E t \in 0..takerInterval : untilTake = [w \in Workers |-> IF w = "w2" THEN t ELSE 0]
    /\ sinceRenewal = [k \in Keys |-> 0]
    /\ alive = [w \in Workers |-> TRUE]
    /\ NoExt

\* the worker that takes a lease renews it now
TakeNow(w, k, down) ==
    /\ TakeTake(w, k, down)
    /\ sinceRenewal' = [sinceRenewal EXCEPT ![k] = IF store'[k] # store[k] THEN 0 ELSE @]
    /\ UNCHANGED <<age, untilTake, alive, extVars>>

\* the store answers every call of the taker, but for the cap of the counters
TakerStep(w) ==
    \/ \E k \in Keys : TakeEvict(w, k, FALSE) /\ UNCHANGED <<timeVars, extVars>>
    \/ TakeChoose(w) /\ UNCHANGED <<timeVars, extVars>>
    \/ \E k \in Keys, down \in BOOLEAN :
          /\ k \in tkPend[w]
          /\ down => allLeases[w][k].counter >= MaxLeaseCounter
          /\ TakeNow(w, k, down)

\* a renewal leaves room under the cap for the take that follows it
OwnerStep(w) ==
    \/ alive[w] /\ RenewList(w) /\ UNCHANGED <<timeVars, extVars>>
    \/ \E k \in Keys, down \in BOOLEAN :
          /\ k \in rnPend[w]
          /\ rnList[w][k].counter + 1 >= MaxLeaseCounter => down
          /\ RenewNow(w, k, down)
    \/ Die(w)

NextFailover ==
    \/ Advance({"w2"})
    \/ TakeTick("w2")
    \/ TakerStep("w2")
    \/ OwnerStep("w1")

\* time passes, and the loop of the taker runs Take() at every tick
FairFailover ==
    /\ WF_vars(Advance({"w2"}))
    /\ WF_vars(TakeTick("w2"))
    /\ WF_vars(TakerStep("w2"))

SpecFailover == InitFailover /\ [][NextFailover]_vars /\ FairFailover

----------------------------------------------------------------------------
\* Balance: the workers are alive and renew their leases in time, so that no
\* lease expires; a take that loses against a renewal of the owner fails like
\* a take that meets a store that is down, and changes nothing

InitBalance ==
    /\ \E S \in SUBSET Keys :
          /\ Cardinality(S) >= Cardinality(Workers)
          /\ \E o \in [S -> Workers] :
                store = [k \in Keys |->
                            IF k \in S THEN [owner |-> o[k], counter |-> 1, data |-> ""]
                            ELSE NoRow]
    /\ call = NoCall
    /\ lastOk = [k \in Keys |-> 0]
    /\ Stopped

\* TakeLease returns success
TakeWon(w, k) == TakeTake(w, k, FALSE) /\ store'[k] # store[k] /\ UNCHANGED <<timeVars, extVars>>

NextBalance ==
    \/ \E w \in Workers : TakeList(w) /\ UNCHANGED <<timeVars, extVars>>
    \/ \E w \in Workers : TakeChoose(w) /\ UNCHANGED <<timeVars, extVars>>
    \/ \E w \in Workers, k \in Keys, down \in BOOLEAN : TakeTake(w, k, down) /\ UNCHANGED <<timeVars, extVars>>

\* the loop of every taker runs Take() at every tick and Take() runs to its
\* end; a TakeLease that is tried again and again does not fail for ever
FairBalance ==
    /\ \A w \in Workers : WF_vars(TakeList(w) /\ UNCHANGED <<timeVars, extVars>>)
    /\ \A w \in Workers : WF_vars(TakeChoose(w) /\ UNCHANGED <<timeVars, extVars>>)
    /\ \A w \in Workers :
          WF_vars(\E k \in Keys, down \in BOOLEAN : TakeTake(w, k, down) /\ UNCHANGED <<timeVars, extVars>>)
    /\ \A w \in Workers, k \in Keys : SF_vars(TakeWon(w, k))

SpecBalance == InitBalance /\ [][NextBalance]_vars /\ FairBalance

----------------------------------------------------------------------------
\* The retry loops of the LeaseManager: one Manager call at a time, one store
\* call per step; the store answers the request or fails with an error that is
\* neither the conditional failure nor 'table already exists'

maxScanRetries == 3
maxCreateRetries == 3
maxUpdateRetries == 2
maxDeleteRetries == 2

LeaseOps == {"RenewLease", "TakeLease", "EvictLease", "UpdateLease", "DeleteLease",
             "CreateLease"}
MgrOps == LeaseOps \cup {"CreateLeaseTable", "ListLeases"}

\* (mutant) every loop runs up to three times
maxRetriesAllThree(op) == 3

\* the bound of the loop of each operation
maxRetries(op) ==
    IF op \in {"CreateLeaseTable", "CreateLease"} THEN maxCreateRetries
    ELSE IF op = "ListLeases" THEN maxScanRetries
    ELSE IF op = "DeleteLease" THEN maxDeleteRetries
    ELSE maxUpdateRetries

\* (mutant) the conditional failure is retried like any other error
breaksNoCond(op, answer) ==
    \/ answer = "ok"
    \/ answer = "exists" /\ op = "CreateLeaseTable"

\* (mutant) 'table already exists' is retried like any other error
breaksNoExists(op, answer) ==
    \/ answer = "ok"
    \/ answer = "cond" /\ op \in LeaseOps

\* the answers of the store that end the loop: success, 'table already exists'
\* for CreateLeaseTable, the conditional failure for the operations on a lease
breaks(op, answer) ==
    \/ answer = "ok"
    \/ answer = "exists" /\ op = "CreateLeaseTable"
    \/ answer = "cond" /\ op \in LeaseOps

\* what one request of the operation does when the store answers it
storeCall(op, w, row, lease) ==
    IF op = "RenewLease" THEN RenewLease(row, lease, FALSE)
    ELSE IF op = "TakeLease" THEN TakeLease(w, row, lease, FALSE)
    ELSE IF op = "EvictLease" THEN EvictLease(row, lease, FALSE)
    ELSE IF op = "UpdateLease" THEN UpdateLease(row, lease, FALSE)
    ELSE IF op = "DeleteLease" THEN DeleteLease(row, lease, FALSE)
    ELSE CreateLease(w, row, lease, FALSE)

\* the answers the store can give to a request of the operation
answers(op, w, row, lease) ==
    {"fail"} \cup
    (IF op = "CreateLeaseTable" THEN {"ok", "exists"}
     ELSE IF op = "ListLeases" THEN {"ok"}
     ELSE IF storeCall(op, w, row, lease).err = "nil" THEN {"ok"} ELSE {"cond"})

\* UpdateLease builds an empty update expression and returns without a request
nothingToUpdate(op, lease) ==
    op = "UpdateLease" /\ lease.data = "" /\ lease.extra = {} /\ lease.removed = {}

\* a Manager operation is called: the loop starts with the attempts the
\* Backoff has counted (none after a Reset)
callBegin(op, w, lease, row) ==
    [op |-> op, w |-> w, lease |-> lease,
     pc |-> IF nothingToUpdate(op, lease) THEN "done" ELSE "loop",
     attempt |-> mcall.attempt, calls |-> 0, fails |-> 0, sleeps |-> 0,
     last |-> "none", err |-> "nil", pre |-> row,
     ret |-> IF nothingToUpdate(op, lease) THEN lease ELSE NoLease]

\* (mutant) the Backoff is not reset when the attempts are used up
callStepNoReset(a, res) ==
    IF breaks(mcall.op, a)
    THEN [mcall EXCEPT !.pc = "done", !.calls = @ + 1, !.last = a, !.attempt = 0,
                       !.err = IF a = "cond" THEN "cond" ELSE "nil",
                       !.ret = IF a = "cond" \/ mcall.op \notin LeaseOps
                               THEN NoLease ELSE res.lease]
    ELSE [mcall EXCEPT !.calls = @ + 1, !.fails = @ + 1, !.sleeps = @ + 1, !.last = a,
                       !.pc = IF mcall.attempt + 1 < maxRetries(mcall.op)
                              THEN "loop" ELSE "done",
                       !.attempt = @ + 1,
                       !.err = "transient"]

\* one turn of the loop with the answer a of the store.  An answer that
\* breaks the loop ends the call after Backoff.Reset(); any other answer is
\* followed by Backoff.Duration(), which counts the attempt, and the sleep, and
\* the call ends when the attempts reach the bound
callStep(a, res) ==
    IF breaks(mcall.op, a)
    THEN [mcall EXCEPT !.pc = "done", !.calls = @ + 1, !.last = a, !.attempt = 0,
                       !.err = IF a = "cond" THEN "cond" ELSE "nil",
                       !.ret = IF a = "cond" \/ mcall.op \notin LeaseOps
                               THEN NoLease ELSE res.lease]
    ELSE [mcall EXCEPT !.calls = @ + 1, !.fails = @ + 1, !.sleeps = @ + 1, !.last = a,
                       !.pc = IF mcall.attempt + 1 < maxRetries(mcall.op)
                              THEN "loop" ELSE "done",
                       !.attempt = IF mcall.attempt + 1 < maxRetries(mcall.op)
                                   THEN @ + 1 ELSE 0,
                       !.err = "transient"]

RetryLeases ==
    {WithFields(Lease("k1", o, c, d), {}, {}) : o \in Owners, c \in 0..MaxCounter, d \in Datas}

\* a Manager operation on a lease is called while no other call is in progress
\* (the worker matters to TakeLease and CreateLease only, the user attribute to
\* UpdateLease and CreateLease only)
MgrBegin(op, w, lease) ==
    /\ mcall.pc \in {"idle", "done"}
    /\ op \notin {"TakeLease", "CreateLease"} => w = "w1"
    /\ op \notin {"UpdateLease", "CreateLease"} => lease.data = ""
    /\ op \in {"RenewLease", "TakeLease"} => lease.counter < MaxCounter
    /\ op = "RenewLease" => lease.owner # ""
    /\ mcall' = callBegin(op, w, lease, store[lease.key])
    /\ UNCHANGED <<mgrVars, takerVars, renewerVars, deleted, timeVars, heldToken,
                   nextToken, app, life, meta, shared>>

\* CreateLeaseTable or ListLeases is called
MgrBeginTable(op, w) ==
    /\ mcall.pc \in {"idle", "done"}
    /\ mcall' = callBegin(op, w, NoLease, NoRow)
    /\ UNCHANGED <<mgrVars, takerVars, renewerVars, deleted, timeVars, heldToken,
                   nextToken, app, life, meta, shared>>

\* one request of the loop of an operation on a lease
StoreCall(a) ==
    LET l == mcall.lease
        res == storeCall(mcall.op, mcall.w, store[l.key], l)
    IN /\ mcall.pc = "loop"
       /\ mcall.op \in LeaseOps
       /\ mcall.attempt < maxRetries(mcall.op)
       /\ a \in answers(mcall.op, mcall.w, store[l.key], l)
       /\ mcall' = callStep(a, res)
       /\ store' = IF a = "ok" THEN [store EXCEPT ![l.key] = res.row] ELSE store
       /\ UNCHANGED <<call, lastOk, takerVars, renewerVars, deleted, timeVars,
                      heldToken, nextToken, app, life, meta, shared>>

\* one request of the loop of CreateLeaseTable or ListLeases
TableCall(a) ==
    /\ mcall.pc = "loop"
    /\ mcall.op \in MgrOps \ LeaseOps
    /\ mcall.attempt < maxRetries(mcall.op)
    /\ a \in answers(mcall.op, mcall.w, NoRow, NoLease)
    /\ mcall' = callStep(a, [lease |-> NoLease])
    /\ UNCHANGED <<mgrVars, takerVars, renewerVars, deleted, timeVars,
                   heldToken, nextToken, app, meta, shared>>

InitRetry ==
    /\ store = [k \in Keys |-> NoRow]
    /\ call = NoCall
    /\ lastOk = [k \in Keys |-> 0]
    /\ Stopped

NextRetry ==
    \/ \E op \in LeaseOps, w \in Workers, l \in RetryLeases : MgrBegin(op, w, l)
    \/ \E op \in MgrOps \ LeaseOps, w \in Workers : MgrBeginTable(op, w)
    \/ \E a \in {"ok", "cond", "fail"} : StoreCall(a)
    \/ \E a \in {"ok", "exists", "fail"} : TableCall(a) /\ UNCHANGED life

SpecRetry == InitRetry /\ [][NextRetry]_vars

----------------------------------------------------------------------------
\* The retry loops of Manager calls that run at the same time.  The taker's
\* goroutine, the renewer's goroutine and the application call the one
\* LeaseManager of the Coordinator, whose Config has one Backoff.  Each method
\* of the Backoff holds its mutex, so Attempt(), Duration() and Reset() are
\* steps; the store answers a request with success, with the conditional
\* failure or with another error

\* the store requests one call can make in the model
MaxSharedCalls == 3

\* the operations each task calls in the model
TaskOps ==
    [t \in Tasks |-> IF t = "taker" THEN {"ListLeases", "TakeLease"}
                     ELSE IF t = "renewer" THEN {"RenewLease"}
                     ELSE {"CreateLease"}]

\* what the operation returns after its loop and Backoff.Reset(): the error
\* of its last request; when the loop made no request err is nil and out is
\* nil, and updateLease dereferences out
returned(op, calls, err) ==
    IF err # "nil" THEN err
    ELSE IF calls = 0 /\ op \in {"RenewLease", "TakeLease", "EvictLease", "UpdateLease"}
    THEN "panic"
    ELSE "nil"

\* a task calls a Manager operation
SharedBegin(t, op) ==
    /\ shared.call[t].pc \in {"idle", "done"}
    /\ op \in TaskOps[t]
    /\ shared' = [shared EXCEPT !.call[t] = [NoTaskCall EXCEPT !.op = op, !.pc = "test"]]

\* the test of the loop: for l.Backoff.Attempt() < max
SharedTest(t) ==
    /\ shared.call[t].pc = "test"
    /\ shared' = [shared EXCEPT !.call[t].pc =
                     IF shared.attempt < maxRetries(shared.call[t].op)
                     THEN "request" ELSE "reset"]

\* one request to the store and its answer; an answer that breaks the loop
\* leads to Backoff.Reset(), another to Backoff.Duration()
SharedRequest(t, a) ==
    /\ shared.call[t].pc = "request"
    /\ shared.call[t].calls < MaxSharedCalls
    /\ a \in {"ok", "fail"} \cup (IF shared.call[t].op \in LeaseOps THEN {"cond"} ELSE {})
    /\ shared' = [shared EXCEPT !.call[t].calls = @ + 1,
                                !.call[t].err = IF a = "ok" THEN "nil" ELSE a,
                                !.call[t].ok = (@ \/ a = "ok"),
                                !.call[t].pc = IF breaks(shared.call[t].op, a)
                                               THEN "reset" ELSE "count"]

\* Backoff.Duration() counts the attempt; the task sleeps and tests again
SharedCount(t) ==
    /\ shared.call[t].pc = "count"
    /\ shared' = [shared EXCEPT !.attempt = @ + 1, !.call[t].pc = "test"]

\* Backoff.Reset() after the loop, and the operation returns
SharedReset(t) ==
    /\ shared.call[t].pc = "reset"
    /\ shared' = [shared EXCEPT !.attempt = 0,
                                !.call[t].pc = "done",
                                !.call[t].ret = returned(shared.call[t].op,
                                                         shared.call[t].calls,
                                                         shared.call[t].err)]

sharedFrame ==
    UNCHANGED <<mgrVars, takerVars, renewerVars, deleted, timeVars, heldToken,
                nextToken, app, mcall, life, meta>>

InitShared ==
    /\ store = [k \in Keys |-> NoRow]
    /\ call = NoCall
    /\ lastOk = [k \in Keys |-> 0]
    /\ Stopped

NextShared ==
    \/ \E t \in Tasks, op \in MgrOps : SharedBegin(t, op) /\ sharedFrame
    \/ \E t \in Tasks : SharedTest(t) /\ sharedFrame
    \/ \E t \in Tasks, a \in {"ok", "cond", "fail"} : SharedRequest(t, a) /\ sharedFrame
    \/ \E t \in Tasks : SharedCount(t) /\ sharedFrame
    \/ \E t \in Tasks : SharedReset(t) /\ sharedFrame

SpecShared == InitShared /\ [][NextShared]_vars

----------------------------------------------------------------------------
\* Coordinator.Start, the two loops and Coordinator.Stop of one worker.  A loop
\* is "first" when its goroutine runs and its first ticker (no delay) has not
\* fired, "run" after that, and "exited" when the goroutine has returned and
\* closed its channel; its tick runs while tkPc / rnPc is not "idle"

\* (mutant) the send of Stop is taken in the middle of a tick
atSelectAlways(loopState, pc) == loopState \in {"first", "run"}

\* loop: the goroutine is in its select, between two ticks
atSelect(loopState, pc) == loopState \in {"first", "run"} /\ pc = "idle"

\* (mutant) a ticker can fire while Stop is waiting to send
tickerFiresAlways(loopState, sending) == TRUE

\* ticker: the first ticker fires at once; a later one fires after the
\* interval, and a Stop that is waiting to send when the select starts is
\* served before that
tickerFires(loopState, sending) == loopState = "first" \/ ~sending

\* Start: CreateLeaseTable is called
Start(w) ==
    /\ life[w].co = "new"
    /\ mcall.pc \in {"idle", "done"}
    /\ mcall' = callBegin("CreateLeaseTable", w, NoLease, NoRow)
    /\ life' = [life EXCEPT ![w].co = "starting"]
    /\ UNCHANGED <<mgrVars, takerVars, renewerVars, deleted, timeVars, appVars>>

\* (mutant) Start launches the two loops whatever CreateLeaseTable returns
StartCallAlways(w, a) ==
    /\ life[w].co = "starting"
    /\ mcall.op = "CreateLeaseTable" /\ mcall.w = w
    /\ TableCall(a)
    /\ life' = [life EXCEPT ![w] =
                   IF mcall'.pc # "done" THEN @
                   ELSE [@ EXCEPT !.co = "running", !.taker = "first",
                                  !.renewer = "first", !.table = a]]

\* Start: one CreateTable of CreateLeaseTable; when CreateLeaseTable returns
\* an error Start returns it, else Start launches the two loops
StartCall(w, a) ==
    /\ life[w].co = "starting"
    /\ mcall.op = "CreateLeaseTable" /\ mcall.w = w
    /\ TableCall(a)
    /\ life' = [life EXCEPT ![w] =
                   IF mcall'.pc # "done" THEN @
                   ELSE IF mcall'.err # "nil" THEN [@ EXCEPT !.co = "failed"]
                   ELSE [@ EXCEPT !.co = "running", !.taker = "first",
                                  !.renewer = "first", !.table = a]]

\* loop of the taker: the ticker fires and Take() starts
LoopTake(w) ==
    /\ atSelect(life[w].taker, tkPc[w])
    /\ tickerFires(life[w].taker, life[w].co = "stopTaker")
    /\ TakeList(w)
    /\ life' = [life EXCEPT ![w].taker = "run"]
    /\ UNCHANGED <<timeVars, appVars, mcall>>

\* loop of the renewer: the ticker fires and Renew() starts
LoopRenew(w) ==
    /\ atSelect(life[w].renewer, rnPc[w])
    /\ tickerFires(life[w].renewer, life[w].co = "stopRenewer")
    /\ RenewList(w)
    /\ life' = [life EXCEPT ![w].renewer = "run"]
    /\ UNCHANGED <<timeVars, appVars, mcall>>

\* the store calls of a running Take()
TakerTick(w) ==
    \/ \E k \in Keys, down \in BOOLEAN : TakeEvict(w, k, down) /\ UNCHANGED <<timeVars, extVars>>
    \/ TakeChoose(w) /\ UNCHANGED <<timeVars, extVars>>
    \/ \E k \in Keys, down \in BOOLEAN : TakeTake(w, k, down) /\ UNCHANGED <<timeVars, extVars>>

\* the store calls of a running Renew()
RenewerTick(w) ==
    \E k \in Keys, down \in BOOLEAN : RenewStep(w, k, down) /\ UNCHANGED <<timeVars, extVars>>

\* Stop is called
Stop(w) ==
    /\ life[w].co = "running"
    /\ life' = [life EXCEPT ![w].co = "stopTaker"]
    /\ UNCHANGED <<mgrVars, takerVars, renewerVars, deleted, timeVars, appVars, mcall>>

\* Stop: c.stopTaker <- struct{}{}; the select of the taker's loop receives
\* it, the goroutine returns and its deferred close(done) runs
StopTaker(w) ==
    /\ life[w].co = "stopTaker"
    /\ atSelect(life[w].taker, tkPc[w])
    /\ life' = [life EXCEPT ![w].co = "waitTaker", ![w].taker = "exited"]
    /\ UNCHANGED <<mgrVars, takerVars, renewerVars, deleted, timeVars, appVars, mcall>>

\* Stop: <-c.stopTaker returns once the channel is closed
WaitTaker(w) ==
    /\ life[w].co = "waitTaker"
    /\ life[w].taker = "exited"
    /\ life' = [life EXCEPT ![w].co = "stopRenewer"]
    /\ UNCHANGED <<mgrVars, takerVars, renewerVars, deleted, timeVars, appVars, mcall>>

\* Stop: c.stopRenwer <- struct{}{}
StopRenewer(w) ==
    /\ life[w].co = "stopRenewer"
    /\ atSelect(life[w].renewer, rnPc[w])
    /\ life' = [life EXCEPT ![w].co = "waitRenewer", ![w].renewer = "exited"]
    /\ UNCHANGED <<mgrVars, takerVars, renewerVars, deleted, timeVars, appVars, mcall>>

\* Stop: <-c.stopRenwer returns once the channel is closed, and Stop returns
WaitRenewer(w) ==
    /\ life[w].co = "waitRenewer"
    /\ life[w].renewer = "exited"
    /\ life' = [life EXCEPT ![w].co = "stopped"]
    /\ UNCHANGED <<mgrVars, takerVars, renewerVars, deleted, timeVars, appVars, mcall>>

\* the table when the worker starts: one lease of its own, one of another worker
LifeKeys == {"k1", "k2"}
LifeOwner == [k \in LifeKeys |-> IF k = "k1" THEN "w1" ELSE "w2"]

InitLife ==
    /\ store = [k \in Keys |-> IF k \in LifeKeys
                               THEN [owner |-> LifeOwner[k], counter |-> 1, data |-> ""]
                               ELSE NoRow]
    /\ call = NoCall
    /\ lastOk = [k \in Keys |-> 0]
    /\ Stopped

NextLife ==
    \/ Start("w1")
    \/ \E a \in {"ok", "exists", "fail"} : StartCall("w1", a)
    \/ LoopTake("w1")
    \/ LoopRenew("w1")
    \/ TakerTick("w1")
    \/ RenewerTick("w1")
    \/ \E k \in Keys : Expire("w1", k) /\ UNCHANGED <<timeVars, extVars>>
    \/ Stop("w1")
    \/ StopTaker("w1")
    \/ WaitTaker("w1")
    \/ StopRenewer("w1")
    \/ WaitRenewer("w1")

\* every tick runs to its end, and Stop and the goroutines of the loops are
\* scheduled
FairLife ==
    /\ WF_vars(TakerTick("w1"))
    /\ WF_vars(RenewerTick("w1"))
    /\ WF_vars(StopTaker("w1"))
    /\ WF_vars(WaitTaker("w1"))
    /\ WF_vars(StopRenewer("w1"))
    /\ WF_vars(WaitRenewer("w1"))

SpecLife == InitLife /\ [][NextLife]_vars /\ FairLife

----------------------------------------------------------------------------
\* The two loops of a started Coordinator with a store that can fail.  A tick
\* begins with ListLeases, whose Scan requests are steps of their own; tkPc /
\* rnPc is "list" while the ListLeases of Take() / Renew() is in progress

\* (mutant) Take reconciles with the list whatever ListLeases returned
takeAfterListAnyway(old, list, err) ==
    [view |-> updateLeases(old, list), evict |-> leasesToEvict(old, list)]

\* Take: with an error of ListLeases the tick returns it at once; else the
\* view is reconciled with the list and the expired leases are to evict
takeAfterList(old, list, err) ==
    IF err # "nil" THEN [view |-> old, evict |-> {}]
    ELSE [view |-> updateLeases(old, list), evict |-> leasesToEvict(old, list)]

\* Renew: with an error of ListLeases the tick returns it at once; else the
\* held leases that were deleted are dropped and every listed lease is handled
renewAfterList(held, list, err) ==
    IF err # "nil" THEN [held |-> held, list |-> NoList, pend |-> {}]
    ELSE [held |-> removeDeleted(held, list), list |-> list, pend |-> KeysOf(list)]

\* (mutant) the goroutine of the loop returns when its tick returns an error
loopAfterTickExit(err) == IF err # "nil" THEN "exited" ELSE "run"

\* loop: the error of a tick is logged and the for loop goes on
loopAfterTick(err) == "run"

\* loop of the taker: the ticker fires, Take() starts and calls ListLeases
LoopTakeFires(w) ==
    /\ atSelect(life[w].taker, tkPc[w])
    /\ tickerFires(life[w].taker, life[w].co = "stopTaker")
    /\ mcall.pc \in {"idle", "done"}
    /\ mcall' = callBegin("ListLeases", w, NoLease, NoRow)
    /\ tkPc' = [tkPc EXCEPT ![w] = "list"]
    /\ life' = [life EXCEPT ![w].taker = "run", ![w].takeErr = FALSE]
    /\ UNCHANGED <<mgrVars, allLeases, tkPend, tkTick, renewerVars, deleted,
                   timeVars, appVars>>

\* one Scan of the ListLeases of Take(); when ListLeases returns, Take goes
\* on with the list or returns the error to the loop
TakeScan(w, a) ==
    LET m == callStep(a, [lease |-> NoLease])
        list == IF m.err = "nil" THEN ListLeases ELSE NoList
        t == takeAfterList(allLeases[w], list, m.err)
    IN /\ tkPc[w] = "list"
       /\ mcall.pc = "loop" /\ mcall.op = "ListLeases" /\ mcall.w = w
       /\ mcall.attempt < maxRetries(mcall.op)
       /\ a \in answers(mcall.op, w, NoRow, NoLease)
       /\ mcall' = m
       /\ IF m.pc # "done" THEN UNCHANGED <<takerVars, life>>
          ELSE /\ allLeases' = [allLeases EXCEPT ![w] = t.view]
               /\ tkPend' = [tkPend EXCEPT ![w] = t.evict]
               /\ tkPc' = [tkPc EXCEPT ![w] = IF m.err # "nil" THEN "idle"
                                             ELSE IF t.evict = {} THEN "choose"
                                             ELSE "evict"]
               /\ life' = [life EXCEPT ![w].takeErr = (m.err # "nil"),
                                       ![w].taker = loopAfterTick(m.err)]
               /\ UNCHANGED tkTick
       /\ UNCHANGED <<mgrVars, renewerVars, deleted, timeVars, appVars>>

\* loop of the renewer: the ticker fires, Renew() starts and calls ListLeases
LoopRenewFires(w) ==
    /\ atSelect(life[w].renewer, rnPc[w])
    /\ tickerFires(life[w].renewer, life[w].co = "stopRenewer")
    /\ mcall.pc \in {"idle", "done"}
    /\ mcall' = callBegin("ListLeases", w, NoLease, NoRow)
    /\ rnPc' = [rnPc EXCEPT ![w] = "list"]
    /\ life' = [life EXCEPT ![w].renewer = "run", ![w].renewErr = FALSE]
    /\ UNCHANGED <<mgrVars, takerVars, heldLeases, rnList, rnPend, deleted,
                   timeVars, appVars>>

\* one Scan of the ListLeases of Renew(); when ListLeases returns, Renew goes
\* on with the list or returns the error to the loop
RenewScan(w, a) ==
    LET m == callStep(a, [lease |-> NoLease])
        list == IF m.err = "nil" THEN ListLeases ELSE NoList
        r == renewAfterList(heldLeases[w], list, m.err)
    IN /\ rnPc[w] = "list"
       /\ mcall.pc = "loop" /\ mcall.op = "ListLeases" /\ mcall.w = w
       /\ mcall.attempt < maxRetries(mcall.op)
       /\ a \in answers(mcall.op, w, NoRow, NoLease)
       /\ mcall' = m
       /\ IF m.pc # "done" THEN UNCHANGED <<renewerVars, life>>
          ELSE /\ heldLeases' = [heldLeases EXCEPT ![w] = r.held]
               /\ rnList' = [rnList EXCEPT ![w] = IF r.pend = {} THEN NoList ELSE r.list]
               /\ rnPend' = [rnPend EXCEPT ![w] = r.pend]
               /\ rnPc' = [rnPc EXCEPT ![w] = IF r.pend = {} THEN "idle" ELSE "renew"]
               /\ life' = [life EXCEPT ![w].renewErr = (m.err # "nil"),
                                       ![w].renewer = loopAfterTick(m.err)]
       /\ UNCHANGED <<mgrVars, takerVars, deleted, timeVars, appVars>>

\* the table of the started worker: one lease of its own, one of another worker
InitLoop ==
    /\ store = [k \in Keys |-> IF k \in LifeKeys
                               THEN [owner |-> LifeOwner[k], counter |-> 1, data |-> ""]
                               ELSE NoRow]
    /\ call = NoCall
    /\ lastOk = [k \in Keys |-> 0]
    /\ allLeases = [w \in Workers |-> NoList]
    /\ tkPc = [w \in Workers |-> "idle"]
    /\ tkPend = [w \in Workers |-> {}]
    /\ tkTick = [w \in Workers |-> NoTick]
    /\ heldLeases = [w \in Workers |-> NoList]
    /\ rnPc = [w \in Workers |-> "idle"]
    /\ rnList = [w \in Workers |-> NoList]
    /\ rnPend = [w \in Workers |-> {}]
    /\ deleted = {}
    /\ NoTime
    /\ heldToken = [w \in Workers |-> [k \in Keys |-> 0]]
    /\ nextToken = 0
    /\ app = [w \in Workers |-> NoApp]
    /\ mcall = NoMcall
    /\ meta = NoMeta
    /\ shared = NoShared
    /\ life = [w \in Workers |->
                  IF w = "w1" THEN [NoLife EXCEPT !.co = "running", !.taker = "first",
                                                  !.renewer = "first", !.table = "ok"]
                  ELSE NoLife]

NextLoop ==
    \/ LoopTakeFires("w1")
    \/ \E a \in {"ok", "fail"} : TakeScan("w1", a)
    \/ LoopRenewFires("w1")
    \/ \E a \in {"ok", "fail"} : RenewScan("w1", a)
    \/ TakerTick("w1")
    \/ RenewerTick("w1")
    \/ \E k \in Keys : Expire("w1", k) /\ UNCHANGED <<timeVars, extVars>>
    \/ Stop("w1")
    \/ StopTaker("w1")
    \/ WaitTaker("w1")
    \/ StopRenewer("w1")
    \/ WaitRenewer("w1")

\* the store answers every request, every tick runs to its end, a ticker
\* fires after its interval whatever the other loop is doing, and Stop and
\* the goroutines of the loops are scheduled
FairLoop ==
    /\ SF_vars(LoopTakeFires("w1"))
    /\ SF_vars(LoopRenewFires("w1"))
    /\ WF_vars(\E a \in {"ok", "fail"} : TakeScan("w1", a))
    /\ WF_vars(\E a \in {"ok", "fail"} : RenewScan("w1", a))
    /\ WF_vars(TakerTick("w1"))
    /\ WF_vars(RenewerTick("w1"))
    /\ WF_vars(StopTaker("w1"))
    /\ WF_vars(WaitTaker("w1"))
    /\ WF_vars(StopRenewer("w1"))
    /\ WF_vars(WaitRenewer("w1"))

SpecLoop == InitLoop /\ [][NextLoop]_vars /\ FairLoop

----------------------------------------------------------------------------
\* The taker of one worker over every table of up to four leases whose owners
\* are this worker, two other workers or nobody

ViewOwners == Workers \cup {"w3", NULL}

ViewRows == {NoRow} \cup {[owner |-> o, counter |-> 1, data |-> ""] : o \in ViewOwners}

InitView ==
    /\ \E rows \in [Keys -> ViewRows] : store = rows
    /\ call = NoCall
    /\ lastOk = [k \in Keys |-> 0]
    /\ Stopped

\* the keys of the leases that their owners renew between the ticks
ViewRenewed == {"k1"}

\* the renewer of the owner of the lease of key k renews it
OwnerRenews(k) ==
    /\ store[k] # NoRow
    /\ store[k].owner \notin {NULL, ""}
    /\ store[k].counter < MaxLeaseCounter
    /\ store' = [store EXCEPT ![k] = RenewLease(store[k], Decode(k, store[k]), FALSE).row]
    /\ UNCHANGED <<call, lastOk, takerVars, renewerVars, deleted, timeVars, extVars>>

NextView ==
    \/ \E k \in ViewRenewed : OwnerRenews(k)
    \/ TakeList("w1") /\ UNCHANGED <<timeVars, extVars>>
    \/ \E k \in Keys : Expire("w1", k) /\ UNCHANGED <<timeVars, extVars>>
    \/ \E k \in Keys, down \in BOOLEAN : TakeEvict("w1", k, down) /\ UNCHANGED <<timeVars, extVars>>
    \/ TakeChoose("w1") /\ UNCHANGED <<timeVars, extVars>>
    \/ \E k \in Keys, down \in BOOLEAN : TakeTake("w1", k, down) /\ UNCHANGED <<timeVars, extVars>>

SpecView == InitView /\ [][NextView]_vars

----------------------------------------------------------------------------
\* The metadata of a Lease object: Set, SetAs, Get, Del and the serializer.
\* A map (extrafields, explicitfields, an item) is a function on the names,
\* with Absent for a name that is not in the map

Absent == [absent |-> TRUE]

\* the names of the fields: one name of the user and the schema attributes
MetaNames == {"bar"} \cup schemakeys

\* the values the application passes: strings to Set; a []string and a
\* [][]byte to SetAs
StringVals == {[go |-> "string", v |-> "v1"], [go |-> "string", v |-> "v2"]}
SliceVals == {[go |-> "[]string", v |-> <<"v1">>], [go |-> "[][]byte", v |-> <<"v1">>]}
AttributeTypes == {"StringSet", "NumberSet", "BinarySet"}

\* the number of Set, SetAs and Del calls on the lease
MaxMetaOps == 3

EmptyFields == [n \in MetaNames |-> Absent]

\* a lease the application got from the coordinator, without metadata
MetaLease ==
    [key |-> "k1", owner |-> "w1", counter |-> 1, extrafields |-> EmptyFields,
     explicitfields |-> EmptyFields, removedfields |-> <<>>]

\* Lease.Set
Lease_Set(l, key, val) ==
    [l EXCEPT !.extrafields[key] = val, !.explicitfields[key] = Absent]

\* Lease.SetAs: the value must be a []string for a StringSet or a NumberSet
\* and a [][]byte for a BinarySet
Lease_SetAs(l, key, val, typ) ==
    LET ok == \/ typ \in {"StringSet", "NumberSet"} /\ val.go = "[]string"
              \/ typ = "BinarySet" /\ val.go = "[][]byte"
        av == [at |-> IF typ = "StringSet" THEN "SS"
                      ELSE IF typ = "NumberSet" THEN "NS" ELSE "BS",
               v |-> val.v]
    IN IF ok
       THEN [err |-> "nil",
             lease |-> [l EXCEPT !.explicitfields[key] = av, !.extrafields[key] = Absent]]
       ELSE [err |-> "ErrValueNotMatch", lease |-> l]

\* Lease.Get
Lease_Get(l, key) ==
    IF l.extrafields[key] # Absent
    THEN [val |-> l.extrafields[key], ok |-> TRUE]
    ELSE IF l.explicitfields[key] # Absent
    THEN [val |-> [go |-> IF l.explicitfields[key].at \in {"NS", "SS"}
                          THEN "[]string" ELSE "[][]byte",
                   v |-> l.explicitfields[key].v],
          ok |-> TRUE]
    ELSE [val |-> Absent, ok |-> FALSE]

\* Lease.Del
Lease_Del(l, key) ==
    IF l.extrafields[key] # Absent
    THEN [l EXCEPT !.extrafields[key] = Absent, !.removedfields = Append(@, key)]
    ELSE IF l.explicitfields[key] # Absent
    THEN [l EXCEPT !.explicitfields[key] = Absent, !.removedfields = Append(@, key)]
    ELSE l

\* dynamodbattribute.MarshalMap of a value of extrafields
marshal(val) == [at |-> "S", v |-> val.v]

\* dynamodbattribute.ConvertFromMap of an attribute: a string for S, a
\* float64 for N
convertFrom(av) ==
    IF av.at = "S" THEN [go |-> "string", v |-> av.v] ELSE [go |-> "float64", v |-> av.v]

\* (mutant) Encode does not delete the schema keys from extrafields
serializer_EncodeNoScrub(l) ==
    [item |-> [n \in MetaNames |->
                  IF l.extrafields[n] # Absent THEN marshal(l.extrafields[n])
                  ELSE IF n = "leaseKey" THEN [at |-> "S", v |-> l.key]
                  ELSE IF n = "leaseOwner" THEN [at |-> "S", v |-> l.owner]
                  ELSE IF n = "leaseCounter" THEN [at |-> "N", v |-> l.counter]
                  ELSE Absent],
     lease |-> l]

\* serializer.Encode: the item has the schema attributes from the fields of
\* the lease and the marshalled extrafields; the schema keys are deleted from
\* the extrafields of the lease itself.  explicitfields are not read
serializer_Encode(l) ==
    [item |-> [n \in MetaNames |->
                  IF n = "leaseKey" THEN [at |-> "S", v |-> l.key]
                  ELSE IF n = "leaseOwner" THEN [at |-> "S", v |-> l.owner]
                  ELSE IF n = "leaseCounter" THEN [at |-> "N", v |-> l.counter]
                  ELSE IF l.extrafields[n] # Absent THEN marshal(l.extrafields[n])
                  ELSE Absent],
     lease |-> [l EXCEPT !.extrafields =
                   [n \in MetaNames |-> IF n \in schemakeys THEN Absent ELSE @[n]]]]

\* serializer.Decode: the schema attributes become the fields of the lease,
\* every other attribute of the item is converted into extrafields
serializer_Decode(item) ==
    [key |-> item["leaseKey"].v, owner |-> item["leaseOwner"].v,
     counter |-> item["leaseCounter"].v,
     extrafields |-> [n \in MetaNames |->
                         IF n \in schemakeys \/ item[n] = Absent THEN Absent
                         ELSE convertFrom(item[n])],
     explicitfields |-> EmptyFields, removedfields |-> <<>>]

\* the application calls Set
MetaSet(key, val) ==
    /\ meta # NoMeta
    /\ meta.ops < MaxMetaOps
    /\ meta' = [lease |-> Lease_Set(meta.lease, key, val),
                last |-> [meta.last EXCEPT ![key] = [op |-> "Set", val |-> val]],
                ops |-> meta.ops + 1, item |-> Absent, decoded |-> Absent,
                expr |-> Absent]

\* the application calls SetAs; a call that returns ErrValueNotMatch set nothing
MetaSetAs(key, val, typ) ==
    LET res == Lease_SetAs(meta.lease, key, val, typ)
    IN /\ meta # NoMeta
       /\ meta.ops < MaxMetaOps
       /\ meta' = [lease |-> res.lease,
                   last |-> IF res.err = "nil"
                            THEN [meta.last EXCEPT ![key] =
                                     [op |-> "SetAs", val |-> val, typ |-> typ]]
                            ELSE meta.last,
                   ops |-> meta.ops + 1, item |-> Absent, decoded |-> Absent,
                expr |-> Absent]

\* the application calls Del
MetaDel(key) ==
    /\ meta # NoMeta
    /\ meta.ops < MaxMetaOps
    /\ meta' = [lease |-> Lease_Del(meta.lease, key),
                last |-> [meta.last EXCEPT ![key] = [op |-> "Del"]],
                ops |-> meta.ops + 1, item |-> Absent, decoded |-> Absent,
                expr |-> Absent]

\* the lease is encoded and the item is decoded
MetaEncode ==
    LET res == serializer_Encode(meta.lease)
    IN /\ meta # NoMeta
       /\ meta.item = Absent
       /\ meta' = [meta EXCEPT !.lease = res.lease, !.item = res.item,
                               !.decoded = serializer_Decode(res.item)]

\* UpdateLease: the update expression it builds for a lease.  sets are the
\* names of the SET clause (the non-reserved attributes of the encoded item,
\* when the lease has fields), rms the names of the REMOVE clause (the
\* non-reserved removed fields); with both empty no request is made
updateExpression(l) ==
    LET hasFields == \E n \in MetaNames :
                        l.extrafields[n] # Absent \/ l.explicitfields[n] # Absent
        enc == serializer_Encode(l)
        sets == IF hasFields
                THEN {n \in MetaNames : enc.item[n] # Absent /\ ~isReserved(n)}
                ELSE {}
        rms == {l.removedfields[i] : i \in 1..Len(l.removedfields)}
               \ {n \in MetaNames : isReserved(n)}
    IN [sets |-> sets, rms |-> rms, request |-> (sets # {} \/ rms # {}),
        lease |-> IF hasFields THEN enc.lease ELSE l]

\* the application passes the lease to UpdateLease
MetaUpdate ==
    LET e == updateExpression(meta.lease)
    IN /\ meta # NoMeta
       /\ meta.expr = Absent
       /\ meta' = [meta EXCEPT !.lease = e.lease,
                               !.expr = [sets |-> e.sets, rms |-> e.rms,
                                         request |-> e.request]]

InitMeta ==
    /\ store = [k \in Keys |-> NoRow]
    /\ call = NoCall
    /\ lastOk = [k \in Keys |-> 0]
    /\ allLeases = [w \in Workers |-> NoList]
    /\ tkPc = [w \in Workers |-> "idle"]
    /\ tkPend = [w \in Workers |-> {}]
    /\ tkTick = [w \in Workers |-> NoTick]
    /\ heldLeases = [w \in Workers |-> NoList]
    /\ rnPc = [w \in Workers |-> "idle"]
    /\ rnList = [w \in Workers |-> NoList]
    /\ rnPend = [w \in Workers |-> {}]
    /\ deleted = {}
    /\ NoTime
    /\ heldToken = [w \in Workers |-> [k \in Keys |-> 0]]
    /\ nextToken = 0
    /\ app = [w \in Workers |-> NoApp]
    /\ mcall = NoMcall
    /\ shared = NoShared
    /\ life = [w \in Workers |-> NoLife]
    /\ meta = [lease |-> MetaLease, last |-> [n \in MetaNames |-> [op |-> "none"]],
               ops |-> 0, item |-> Absent, decoded |-> Absent,
                expr |-> Absent]

metaFrame ==
    UNCHANGED <<mgrVars, takerVars, renewerVars, deleted, timeVars, heldToken,
                nextToken, app, mcall, life, shared>>

NextMeta ==
    \/ \E key \in MetaNames, val \in StringVals : MetaSet(key, val) /\ metaFrame
    \/ \E key \in MetaNames, val \in SliceVals, typ \in AttributeTypes :
          MetaSetAs(key, val, typ) /\ metaFrame
    \/ \E key \in MetaNames : MetaDel(key) /\ metaFrame
    \/ MetaEncode /\ metaFrame
    \/ MetaUpdate /\ metaFrame

SpecMeta == InitMeta /\ [][NextMeta]_vars

----------------------------------------------------------------------------
\* Coordinator.Update: the application of one worker updates the metadata of
\* the leases its renewer holds, while the takers move the leases

\* the renewer's lists are decoded at most MaxToken times
MaxToken == 3

\* the takers take a lease while its counter is below MaxTakenCounter
MaxTakenCounter == 3

\* (mutant) the concurrency tokens are not compared
updateCheckNoToken(held, heldTok, tok) ==
    IF held = NoLease THEN "LeaseNotHeld" ELSE "call"

\* Update: the held lease with the key of the argument is looked up (held is
\* NoLease when there is none, the zero Lease of the code) and its token is
\* compared with the token of the argument
updateCheck(held, heldTok, tok) ==
    IF held = NoLease \/ hasNoOwner(held) THEN "LeaseNotHeld"
    ELSE IF heldTok # tok THEN "TokenNotMatch"
    ELSE "call"

\* the application's lease object stays 'kept' while its key is in the held
\* set, until Update is called with it
keptAfter(w, held) ==
    [app EXCEPT ![w].kept =
        IF app[w].lease = NoLease \/ app[w].res # "none" THEN @
        ELSE @ /\ held[app[w].lease.key] # NoLease]

\* Renew, ListLeases: Decode gives every listed lease a new concurrencyToken;
\* the token of the lease of a key in the n-th list is n
RenewListTok(w) ==
    /\ nextToken < MaxToken
    /\ RenewList(w)
    /\ nextToken' = nextToken + 1
    /\ heldToken' = [heldToken EXCEPT ![w] =
                        [k \in Keys |-> IF heldLeases'[w][k] = NoLease THEN 0 ELSE @[k]]]
    /\ app' = keptAfter(w, heldLeases'[w])
    /\ UNCHANGED <<mcall, life, meta, shared, timeVars>>

\* Renew, one listed lease: the lease that is stored in heldLeases is the
\* listed one, with the token of this list
RenewStepTok(w, k, down) ==
    /\ RenewStep(w, k, down)
    /\ heldToken' = [heldToken EXCEPT ![w][k] =
                        IF heldLeases'[w][k] = NoLease THEN 0 ELSE nextToken]
    /\ app' = keptAfter(w, heldLeases'[w])
    /\ UNCHANGED <<nextToken, mcall, life, meta, shared, timeVars>>

\* the application takes a lease from GetHeldLeases (a copy, with the token of
\* the held lease) and may Set the user attribute on it
AppGet(w) ==
    \E l \in GetHeldLeases(w), d \in Datas :
        /\ app' = [app EXCEPT ![w] =
                      [lease |-> WithFields([l EXCEPT !.data = d], {}, {}),
                       token |-> heldToken[w][l.key], kept |-> TRUE,
                       res |-> "none", called |-> FALSE]]
        /\ UNCHANGED <<mgrVars, takerVars, renewerVars, deleted, heldToken, nextToken,
                       mcall, life, meta, shared, timeVars>>

\* the application builds a lease with NewLease (its token is empty) and Sets
\* the user attribute on it
AppNew(w, k) ==
    /\ app' = [app EXCEPT ![w] =
                  [lease |-> WithFields(Lease(k, "", 0, "d1"), {}, {}),
                   token |-> 0, kept |-> FALSE, res |-> "none", called |-> FALSE]]
    /\ UNCHANGED <<mgrVars, takerVars, renewerVars, deleted, heldToken, nextToken,
                   mcall, life, meta, shared, timeVars>>

\* Coordinator.Update with the application's lease
Update(w, down) ==
    LET l == app[w].lease
        chk == updateCheck(heldLeases[w][l.key], heldToken[w][l.key], app[w].token)
        res == UpdateLease(store[l.key], l, down)
    IN /\ l # NoLease
       /\ app[w].res = "none"
       /\ store' = IF chk = "call" THEN [store EXCEPT ![l.key] = res.row] ELSE store
       /\ app' = [app EXCEPT ![w].res = IF chk = "call" THEN res.err ELSE chk,
                             ![w].called = (chk = "call")]
       /\ UNCHANGED <<call, lastOk, takerVars, renewerVars, deleted, heldToken,
                      nextToken, mcall, life, meta, shared, timeVars>>

\* the taker of worker v takes the lease of key k with the lease it listed
TakenBy(v, k) ==
    /\ store[k] # NoRow
    /\ store[k].owner # v
    /\ store[k].counter < MaxTakenCounter
    /\ store' = [store EXCEPT ![k] = TakeLease(v, store[k], Decode(k, store[k]), FALSE).row]
    /\ UNCHANGED <<call, lastOk, takerVars, renewerVars, deleted, timeVars, extVars>>

InitUpdate ==
    /\ \E o \in Workers :
          store = [k \in Keys |-> IF k \in AppKeys
                                  THEN [owner |-> o, counter |-> 1, data |-> ""]
                                  ELSE NoRow]
    /\ call = NoCall
    /\ lastOk = [k \in Keys |-> 0]
    /\ Stopped

NextUpdate ==
    \/ RenewListTok("w1")
    \/ \E k \in Keys, down \in BOOLEAN : RenewStepTok("w1", k, down)
    \/ AppGet("w1")
    \/ \E k \in AppKeys : AppNew("w1", k)
    \/ \E down \in BOOLEAN : Update("w1", down)
    \/ \E v \in Workers, k \in AppKeys : TakenBy(v, k)

SpecUpdate == InitUpdate /\ [][NextUpdate]_vars

----------------------------------------------------------------------------
\* The renewer of one worker while the other workers take and delete leases

\* the application of worker v deletes the lease of key k, which v owns
DeletedBy(v, k) ==
    /\ store[k] # NoRow
    /\ store[k].owner = v
    /\ store' = [store EXCEPT ![k] = DeleteLease(store[k], Decode(k, store[k]), FALSE).row]
    /\ deleted' = deleted \cup {k}
    /\ UNCHANGED <<call, lastOk, takerVars, renewerVars, timeVars, extVars>>

NextRenewRace ==
    \/ RenewList("w1") /\ UNCHANGED <<timeVars, extVars>>
    \/ \E k \in Keys, down \in BOOLEAN : RenewStep("w1", k, down) /\ UNCHANGED <<timeVars, extVars>>
    \/ \E k \in RenewKeys : TakenBy("w2", k)
    \/ \E k \in RenewKeys : DeletedBy("w2", k)

SpecRenewRace == InitRenew /\ [][NextRenewRace]_vars

----------------------------------------------------------------------------
\* A taker that reconciles and evicts while the other worker renews and takes.
\* The table holds leases that CreateLease, the renewals, the evictions and
\* the takes wrote, and the item UpdateLease creates for a key that has no
\* item (no owner, no counter); the taker has listed the table before

EvictKeys == {"k1", "k2"}

EvictRows ==
    {[owner |-> "", counter |-> 0, data |-> "d1"]}
    \cup {[owner |-> o, counter |-> 1, data |-> ""] : o \in Workers \cup {NULL}}

InitEvict ==
    /\ \E rows \in [EvictKeys -> EvictRows] :
          store = [k \in Keys |-> IF k \in EvictKeys THEN rows[k] ELSE NoRow]
    /\ call = NoCall
    /\ lastOk = [k \in Keys |-> 0]
    /\ allLeases = [w \in Workers |-> IF w = "w1" THEN ListLeases ELSE NoList]
    /\ tkPc = [w \in Workers |-> "idle"]
    /\ tkPend = [w \in Workers |-> {}]
    /\ tkTick = [w \in Workers |-> NoTick]
    /\ heldLeases = [w \in Workers |-> NoList]
    /\ rnPc = [w \in Workers |-> "idle"]
    /\ rnList = [w \in Workers |-> NoList]
    /\ rnPend = [w \in Workers |-> {}]
    /\ deleted = {}
    /\ NoTime
    /\ NoExt

NextEvict ==
    \/ TakeList("w1") /\ UNCHANGED <<timeVars, extVars>>
    \/ \E k \in Keys : Expire("w1", k) /\ UNCHANGED <<timeVars, extVars>>
    \/ \E k \in Keys, down \in BOOLEAN : TakeEvict("w1", k, down) /\ UNCHANGED <<timeVars, extVars>>
    \/ TakeChoose("w1") /\ UNCHANGED <<timeVars, extVars>>
    \/ \E k \in Keys, down \in BOOLEAN : TakeTake("w1", k, down) /\ UNCHANGED <<timeVars, extVars>>
    \/ \E k \in EvictKeys : OwnerRenews(k)
    \/ \E k \in EvictKeys : TakenBy("w2", k)

SpecEvict == InitEvict /\ [][NextEvict]_vars

----------------------------------------------------------------------------
\* Properties of the Manager's conditional writes

CondOps == {"renew", "take", "evict"}

\* C1: a renew, take or evict that returns success wrote to a row whose stored
\* (owner, counter) equalled the (owner, counter) of the lease passed in, for
\* every lease value (counter 0 and empty owner included)
C1_SuccessMatchedStored ==
    (call.op \in CondOps /\ call.err = "nil") =>
        /\ call.pre # NoRow
        /\ call.pre.owner = call.before.owner
        /\ call.pre.counter = call.before.counter

\* C4: no write to an existing row lowers its stored counter
C4_CounterNeverDecreases ==
    [][\A k \in Keys :
          (store[k] # NoRow /\ store'[k] # NoRow) =>
              store'[k].counter >= store[k].counter]_vars

\* what a successful renew or take leaves in the caller's lease and in the row
RenewTakePost ==
    (call.op \in {"renew", "take"} /\ call.err = "nil") =>
        /\ call.after.counter = call.before.counter + 1
        /\ call.after.owner = IF call.op = "take" THEN call.w ELSE call.before.owner
        /\ store[call.before.key] # NoRow
        /\ store[call.before.key].counter = call.after.counter
        /\ store[call.before.key].owner = call.after.owner

\* C5: a successful renew keeps the owner and adds 1 to the counter, a
\* successful take sets the owner to the taker and adds 1 to the counter, the
\* row holds the new counter, and each successful renew or take on a key
\* returns the counter of the previous successful one plus 1
C5_MonotonicCounter ==
    [][/\ RenewTakePost'
       /\ \A k \in Keys :
             (lastOk[k] > 0 /\ lastOk'[k] > 0 /\ call' # call) =>
                 lastOk'[k] \in {lastOk[k], lastOk[k] + 1}]_vars

\* C26: an evict that returns success leaves the stored owner "NULL" and the
\* stored counter and the user's attribute as they were before the write, for
\* every lease value; the caller's lease has its counter unchanged and its
\* owner "NULL"
C26_EvictOnlyOwner ==
    (call.op = "evict" /\ call.err = "nil") =>
        /\ call.pre # NoRow
        /\ store[call.before.key] # NoRow
        /\ store[call.before.key].owner = NULL
        /\ store[call.before.key].counter = call.pre.counter
        /\ store[call.before.key].data = call.pre.data
        /\ call.after.counter = call.before.counter
        /\ call.after.owner = NULL

\* C27: an evict that the store answers succeeds exactly when the stored
\* owner equals the owner of the lease passed in, whatever the stored counter
\* is, and fails on the condition otherwise
C27_EvictCondOwnerOnly ==
    (call.op = "evict" /\ call.err # "transient") =>
        (call.err = "nil" <=> (call.pre # NoRow /\ call.pre.owner = call.before.owner))

\* C6: a renew, take or evict that returns an error leaves the (owner,
\* counter) of the caller's lease object as it was
C6_NoMutationOnFailure ==
    (call.op \in CondOps /\ call.err # "nil") =>
        /\ call.after.owner = call.before.owner
        /\ call.after.counter = call.before.counter

C6_Witness ==
    /\ call.op = "take"
    /\ call.err = "cond"
    /\ call.pre # NoRow
    /\ call.before.owner \in Workers
    /\ call.before.counter > 0
    /\ call.after = call.before

\* the number of store calls the claimed cap allows each operation
claimedCap(op) ==
    IF op \in {"CreateLeaseTable", "ListLeases", "CreateLease"} THEN 3 ELSE 2

\* C17: a Manager operation that is called alone and whose store calls all
\* fail with an error that is neither conditional nor 'already exists' makes
\* exactly its cap of store calls (3 for CreateLeaseTable, ListLeases and
\* CreateLease, 2 for the others) and returns the error; while the loop runs
\* every call so far has failed, and the call that does not fail is the last
C17_RetryCap ==
    /\ (mcall.pc = "done" /\ mcall.err = "transient") =>
          (mcall.calls = claimedCap(mcall.op) /\ mcall.fails = mcall.calls)
    /\ mcall.pc = "loop" =>
          (mcall.calls = mcall.fails /\ mcall.calls < claimedCap(mcall.op))
    /\ (mcall.pc = "done" /\ mcall.err # "transient" /\ mcall.calls > 0) =>
          mcall.calls = mcall.fails + 1

\* a RenewLease whose two UpdateItem calls failed
C17_Witness ==
    /\ mcall.op = "RenewLease" /\ mcall.pc = "done"
    /\ mcall.err = "transient"
    /\ mcall.calls = 2 /\ mcall.fails = 2
    /\ store["k1"] = mcall.pre

\* C18: when the store answers the request of a take, renew, evict, create or
\* delete with the conditional failure, the operation returns that error after
\* this store call: the loop never goes on after such an answer, and no
\* backoff sleep follows it
C18_CondIsTerminal ==
    /\ (mcall.pc = "done" /\ mcall.last = "cond") =>
          /\ mcall.err = "cond"
          /\ mcall.calls = mcall.fails + 1
          /\ mcall.sleeps = mcall.fails
          /\ mcall.fails = 0 => (mcall.calls = 1 /\ mcall.sleeps = 0)
    /\ mcall.pc = "loop" => mcall.last # "cond"

\* a DeleteLease with another owner than the row has: one DeleteItem, the
\* conditional failure, no sleep, and the row stays
C18_Witness ==
    /\ mcall.op = "DeleteLease" /\ mcall.pc = "done"
    /\ mcall.err = "cond"
    /\ mcall.calls = 1 /\ mcall.sleeps = 0
    /\ mcall.pre # NoRow /\ mcall.pre.owner # mcall.lease.owner
    /\ store["k1"] = mcall.pre

\* C33: when a Manager operation that entered its retry loop returns, with
\* success, with the conditional failure or with its retries used up, the
\* attempts of the Backoff are 0, and the next operation starts its loop with
\* no attempt counted
C33_BackoffReset ==
    [][/\ (mcall.pc = "loop" /\ mcall'.pc = "done") => mcall'.attempt = 0
       /\ (mcall.pc # "loop" /\ mcall'.pc = "loop")
             => (mcall.attempt = 0 /\ mcall'.attempt = 0)]_vars

\* ListLeases has returned after maxScanRetries failed Scans and the Backoff
\* is reset
C33_Witness ==
    /\ mcall.op = "ListLeases" /\ mcall.pc = "done"
    /\ mcall.err = "transient" /\ mcall.fails = maxScanRetries
    /\ mcall.attempt = 0

\* C34: with the taker, the renewer and the application calling the Manager
\* at the same time on the one Backoff, every call that returned made at
\* least one request and at most as many as the bound of its operation, and
\* returned success only after a request of its own succeeded
C34_SharedBackoffSafe ==
    \A t \in Tasks :
       shared.call[t].pc = "done"
          => /\ shared.call[t].calls >= 1
             /\ shared.call[t].calls <= maxRetries(shared.call[t].op)
             /\ shared.call[t].ret = "nil" => shared.call[t].ok
             /\ shared.call[t].ret # "panic"

\* the owner and the counter CreateLease puts in the item
createdOwner == IF mcall.lease.owner = "" THEN mcall.w ELSE mcall.lease.owner
createdCounter == IF mcall.lease.counter = 0 THEN 1 ELSE mcall.lease.counter

\* C16: CreateLease on a key whose row has another (owner, counter) than the
\* defaulted owner and counter of the argument returns, when the store answers,
\* the conditional failure and no lease and leaves the row as it was, after
\* exactly one PutItem call when the store answers the first one; CreateLease
\* on an absent key stores owner = this worker when the argument has no owner,
\* and counter = 1 when the argument's counter is 0
C16_CreateNoOverwrite ==
    (mcall.op = "CreateLease" /\ mcall.pc = "done") =>
        /\ (/\ mcall.pre # NoRow
            /\ (mcall.pre.owner # createdOwner \/ mcall.pre.counter # createdCounter)
            /\ mcall.err # "transient")
              => /\ mcall.err = "cond"
                 /\ mcall.ret = NoLease
                 /\ store[mcall.lease.key] = mcall.pre
                 /\ mcall.fails = 0 => mcall.calls = 1
        /\ (mcall.pre = NoRow /\ mcall.err = "nil")
              => /\ store[mcall.lease.key] # NoRow
                 /\ mcall.lease.owner = "" => store[mcall.lease.key].owner = mcall.w
                 /\ mcall.lease.counter = 0 => store[mcall.lease.key].counter = 1

\* w1 calls CreateLease(NewLease) on the key of a lease of w2: one PutItem,
\* the conditional failure, and the row of w2 stays
C16_Witness ==
    /\ mcall.op = "CreateLease" /\ mcall.pc = "done"
    /\ mcall.w = "w1" /\ mcall.lease.owner = "" /\ mcall.lease.counter = 0
    /\ mcall.pre # NoRow /\ mcall.pre.owner = "w2"
    /\ mcall.err = "cond" /\ mcall.calls = 1
    /\ mcall.ret = NoLease
    /\ store["k1"] = mcall.pre

\* the owner and the counter an item holds ("" and 0 when it has none, or
\* when there is no item)
StoredOwner(row) == IF row = NoRow THEN "" ELSE row.owner
StoredCounter(row) == IF row = NoRow THEN 0 ELSE row.counter

\* C14: whatever lease UpdateLease is given (metadata Set or removed under the
\* names leaseOwner and leaseCounter, Owner and Counter fields that differ from
\* the row), the stored owner and the stored counter of the key are the same
\* after the call as before it
C14_UpdateKeepsInternal ==
    call.op = "update" =>
        /\ StoredOwner(store[call.before.key]) = StoredOwner(call.pre)
        /\ StoredCounter(store[call.before.key]) = StoredCounter(call.pre)

\* an update that wrote the user attribute, with fields Set under leaseOwner
\* and leaseCounter and removed under them, and another Owner and Counter than
\* the row has
C14_Witness ==
    /\ call.op = "update" /\ call.err = "nil"
    /\ call.before.extra = {"leaseOwner", "leaseCounter"}
    /\ call.before.removed = {"leaseOwner", "leaseCounter"}
    /\ call.pre # NoRow
    /\ call.before.owner # call.pre.owner
    /\ call.before.counter # call.pre.counter
    /\ store[call.before.key].data # call.pre.data

\* C15: a Delete called by worker W removes an existing row only if the stored
\* owner of the row is W, for every lease argument; when the row is owned by
\* another worker and the store answers, the call fails with the conditional
\* failure and the row stays
C15_DeleteOnlyByOwner ==
    (call.op = "delete" /\ call.pre # NoRow) =>
        /\ store[call.before.key] = NoRow => call.pre.owner = call.w
        /\ (call.pre.owner \in Workers \ {call.w} /\ call.err # "transient")
              => (call.err = "cond" /\ store[call.before.key] = call.pre)

----------------------------------------------------------------------------
\* Properties of workers that contend for one lease

\* TakeLease changes the lease object only when it succeeds, to owner = the
\* worker and counter = the listed counter + 1, and every worker listed the
\* same lease: the calls of v and w both succeeded exactly when each lease
\* object names its worker as the owner and the two counters are equal
BothTook(v, w) ==
    /\ tkPc[v] = "idle" /\ tkPc[w] = "idle"
    /\ allLeases[v]["k1"].owner = v /\ allLeases[w]["k1"].owner = w
    /\ allLeases[v]["k1"].counter = allLeases[w]["k1"].counter

\* C2: when the workers call TakeLease on one key, each with the lease it
\* listed from the same state of the row, at most one call returns success,
\* for every initial row (a row with no owner and counter 0 included)
C2_AtMostOneTake == ~ \E v, w \in Workers : v # w /\ BothTook(v, w)

----------------------------------------------------------------------------
\* Properties of several coordinators

Holds(w, k) == heldLeases[w][k] # NoLease /\ heldLeases[w][k].owner = w

SameCounterOwners(k) ==
    \E v, w \in Workers :
        /\ v # w
        /\ Holds(v, k) /\ Holds(w, k)
        /\ heldLeases[v][k].counter = heldLeases[w][k].counter

----------------------------------------------------------------------------
\* Properties of the taker

\* C9: in a taker tick on the stealing path (no lease of the view is expired or
\* unowned), the TakeLease calls made and still to make are at most
\* MaxLeasesToStealAtOneTime
C9_StealCap ==
    \A w \in Workers :
        (tkPc[w] = "take" /\ tkTick[w].path = "steal")
            => tkTick[w].takes + Cardinality(tkPend[w]) <= Config_MaxLeasesToStealAtOneTime

\* a tick on the stealing path that needs two leases and takes one
C9_Witness ==
    /\ tkPc["w1"] = "take" /\ tkTick["w1"].path = "steal"
    /\ Cardinality(tkPend["w1"]) = Config_MaxLeasesToStealAtOneTime
    /\ getExpiredLeases(allLeases["w1"]) = {}
    /\ numToReachTarget(allLeases["w1"], "w1") > Config_MaxLeasesToStealAtOneTime

----------------------------------------------------------------------------
\* Properties of the failover

\* the stored owner of the lease is dead, or the lease was evicted
Orphaned(k) ==
    /\ store[k] # NoRow
    /\ store[k].counter < MaxLeaseCounter
    /\ \/ store[k].owner = NULL
       \/ store[k].owner \in Workers /\ ~alive[store[k].owner]

\* the lease is not orphaned for longer than the window
FailoverInWindow == \A k \in Keys : Orphaned(k) => sinceRenewal[k] <= FailoverBound

----------------------------------------------------------------------------
\* Properties of the balance

numOwned(w) == Cardinality({k \in Keys : store[k] # NoRow /\ store[k].owner = w})

\* ceil(N / W) for the N leases of the table and the W workers
fairShare ==
    LET N == Cardinality({k \in Keys : store[k] # NoRow})
        W == Cardinality(Workers)
    IN (N + W - 1) \div W

Balanced ==
    \A w \in Workers : numOwned(w) >= fairShare - 1 /\ numOwned(w) <= fairShare + 1

----------------------------------------------------------------------------
\* Properties of a Take() tick

\* N: the number of leases in the view
viewN(all) == Cardinality({k \in Keys : all[k] # NoLease})

\* the owners of the view that are workers
viewOwners(all) ==
    {all[k].owner : k \in {x \in Keys : all[x] # NoLease /\ all[x].owner \notin {NULL, ""}}}

\* W: the number of distinct owners in the view, plus this worker if it owns
\* no lease
viewW(all, me) == Cardinality(viewOwners(all) \cup {me})

\* 1 when N <= W, ceil(N / W) otherwise
claimedTarget(N, W) == IF N <= W THEN 1 ELSE (N + W - 1) \div W

\* C28: the target a Take() tick uses after it reconciled its view is 1 when
\* N <= W and ceil(N / W) otherwise, N the number of leases of the view and W
\* the number of distinct owners in it, this worker included
C28_Target ==
    \A w \in Workers :
        tkPc[w] = "choose" =>
            target(allLeases[w], w) = claimedTarget(viewN(allLeases[w]), viewW(allLeases[w], w))

\* a tick is about to choose with N = 4 leases and W = 3 workers: the target
\* is 2
C28_Witness ==
    /\ tkPc["w1"] = "choose"
    /\ viewN(allLeases["w1"]) = 4
    /\ viewW(allLeases["w1"], "w1") = 3
    /\ target(allLeases["w1"], "w1") = 2

\* the number of leases of the view that owner o has
viewCount(all, o) == Cardinality({k \in Keys : all[k] # NoLease /\ all[k].owner = o})

\* the number of leases this worker needs to reach the target
viewNeed(all, me) == claimedTarget(viewN(all), viewW(all, me)) - viewCount(all, me)

\* the view has no expired lease and no lease without owner
NoneAvailable(all) ==
    \A k \in Keys : all[k] # NoLease => (~all[k].expired /\ all[k].owner \notin {NULL, ""})

\* the most loaded workers of the view
viewMostLoaded(all, me) ==
    {m \in viewOwners(all) \cup {me} :
        \A o \in viewOwners(all) \cup {me} : viewCount(all, o) <= viewCount(all, m)}

\* k of the steal rule
claimedSteal(count, tgt, need) ==
    IF count - tgt >= 1 THEN min(need, count - tgt)
    ELSE IF count = tgt /\ need > 1 THEN 1
    ELSE 0

Reconciled(w) ==
    /\ tkPend'[w] = {k \in Keys : /\ store[k] # NoRow
                                  /\ allLeases[w][k] # NoLease
                                  /\ allLeases[w][k].counter = store[k].counter
                                  /\ allLeases[w][k].expired}
    /\ \A k \in Keys :
          /\ store[k] = NoRow => allLeases'[w][k] = NoLease
          /\ (store[k] # NoRow
              /\ (allLeases[w][k] = NoLease \/ allLeases[w][k].counter # store[k].counter))
                => allLeases'[w][k] = Decode(k, store[k])
          /\ (store[k] # NoRow /\ allLeases[w][k] # NoLease
              /\ allLeases[w][k].counter = store[k].counter)
                => /\ allLeases'[w][k].counter = allLeases[w][k].counter
                   /\ allLeases'[w][k].expired = allLeases[w][k].expired

\* C30, the evictions: every step of the evict phase is one EvictLease call
\* for a key that is still to evict, which is not called again; it writes
\* at most the owner of that key; the phase ends when no key is left
EvictedOnce(w) ==
    /\ \E k \in tkPend[w] :
          /\ tkPend'[w] = tkPend[w] \ {k}
          /\ \A j \in Keys \ {k} : store'[j] = store[j]
          /\ store'[k] # store[k] =>
                (store'[k] = [store[k] EXCEPT !.owner = NULL])
    /\ tkPc'[w] # "evict" => (tkPc'[w] = "choose" /\ tkPend'[w] = {})

\* C30: in every Take() tick EvictLease is called exactly once for each
\* listed key that was in the view with the same counter and an expired
\* lastRenewal and for no other key, and the view is reconciled with the list
C30_ReconcileAndEvict ==
    [][/\ \A w \in Workers :
             /\ (tkPc[w] = "idle" /\ tkPc'[w] # "idle") => Reconciled(w)
             /\ (tkPc[w] = "evict" /\ <<tkPc[w], tkPend[w]>>' # <<tkPc[w], tkPend[w]>>)
                   => EvictedOnce(w)
       /\ \A k \in Keys :
             (store[k] # NoRow /\ store'[k] # NoRow
              /\ store[k].owner # NULL /\ store'[k].owner = NULL)
                => \E w \in Workers : tkPc[w] = "evict" /\ k \in tkPend[w]]_vars

\* three leases that the tick found expired with an unchanged counter have
\* been evicted and are about to be taken
C30_Witness ==
    /\ tkPc["w1"] = "take" /\ tkTick["w1"].path = "expired"
    /\ Cardinality(tkPend["w1"]) = 3
    /\ \A k \in tkPend["w1"] :
          /\ allLeases["w1"][k].expired
          /\ store[k] # NoRow /\ store[k].owner = NULL /\ allLeases["w1"][k].owner = NULL

\* C36, the choice: the leases a tick chooses to take are at most the leases
\* it needs, none when it has the target already, and a lease it chose to
\* steal is not its own
ChoseWithinNeed(w) ==
    /\ Cardinality(tkPend'[w]) <= viewNeed(allLeases[w], w) \/ tkPend'[w] = {}
    /\ viewCount(allLeases[w], w) >= claimedTarget(viewN(allLeases[w]), viewW(allLeases[w], w))
          => tkPend'[w] = {}
    /\ (tkPend'[w] # {} /\ tkTick'[w].path = "steal")
          => \A k \in tkPend'[w] : allLeases[w][k].owner # w

\* C36, the calls: every step of the take phase is one TakeLease call for a
\* chosen lease, which is not called again
TookOnce(w) ==
    \E k \in tkPend[w] : tkPend'[w] = tkPend[w] \ {k}

\* C36: in every tick the TakeLease calls are at most max(0, target -
\* myCount), none when this worker has the target, and never for a lease of
\* its own on the stealing path
C36_NoMoreThanNeeded ==
    [][\A w \in Workers :
          /\ (tkPc[w] = "choose" /\ tkPc'[w] # "choose") => ChoseWithinNeed(w)
          /\ (tkPc[w] = "take" /\ <<tkPc[w], tkPend[w]>>' # <<tkPc[w], tkPend[w]>>)
                => TookOnce(w)
          /\ (tkPc[w] \notin {"choose", "take"} /\ tkPc'[w] = "take") => FALSE]_vars

\* the tick has one lease, needs one more, found two leases to take and
\* is about to take just one
C36_Witness ==
    /\ tkPc["w1"] = "take" /\ tkTick["w1"].path = "expired" /\ tkTick["w1"].takes = 0
    /\ Cardinality(tkPend["w1"]) = 1
    /\ viewCount(allLeases["w1"], "w1") = 1
    /\ viewNeed(allLeases["w1"], "w1") = 1
    /\ Cardinality(getExpiredLeases(allLeases["w1"])) >= 2

\* C37: when a tick chooses, the number of expired leases it slices is at
\* most the number of expired leases, and the number of leases to steal,
\* with MaxLeasesToStealAtOneTime or without any cap, is at most the number
\* of leases of the most loaded worker in the view
C37_SliceInRange ==
    \A w \in Workers :
       tkPc[w] = "choose" =>
          LET all == allLeases[w]
              need == numToReachTarget(all, w)
              tgt == target(all, w)
              leaseCounts == computeLeaseCounts(all, w)
              numExpired == Cardinality(getExpiredLeases(all))
          IN need > 0 =>
                /\ numExpired > 0 =>
                      /\ numExpiredToTake(need, numExpired) >= 0
                      /\ numExpiredToTake(need, numExpired) <= numExpired
                /\ numExpired = 0 =>
                      \A m \in mostLoadedWorkers(leaseCounts) :
                         LET candidates == {k \in KeysOf(all) : all[k].owner = m}
                         IN /\ numLeasesToSteal(leaseCounts, m, need, tgt)
                                  <= Cardinality(candidates)
                            /\ claimedSteal(leaseCounts[m], tgt, need)
                                  <= Cardinality(candidates)

\* a tick that needs two leases has one expired lease to slice
C37_Witness ==
    /\ tkPc["w1"] = "choose"
    /\ numToReachTarget(allLeases["w1"], "w1") = 2
    /\ Cardinality(getExpiredLeases(allLeases["w1"])) = 1

\* C35: a lease whose counter differs from the one the taker remembered is
\* not among the leases the tick evicts, and no EvictLease sets the owner of
\* a row to NULL when the counter of the row is beyond the counter its
\* caller listed
C35_LiveOwnerNotEvicted ==
    [][/\ \A w \in Workers, k \in Keys :
             (/\ tkPc[w] = "idle" /\ tkPc'[w] # "idle"
              /\ allLeases[w][k] # NoLease /\ store[k] # NoRow
              /\ allLeases[w][k].counter # store[k].counter)
                => k \notin tkPend'[w]
       /\ \A k \in Keys :
             (store[k] # NoRow /\ store'[k] # NoRow
              /\ store[k].owner # NULL /\ store'[k].owner = NULL)
                => \E w \in Workers :
                      /\ tkPc[w] = "evict" /\ k \in tkPend[w]
                      /\ ~(store[k].counter > allLeases[w][k].counter)]_vars

----------------------------------------------------------------------------
\* Properties of the metadata of a lease

\* what Get has to return for a name after the last call on that name
expectedGet(last) ==
    IF last.op \in {"Set", "SetAs"} THEN [val |-> last.val, ok |-> TRUE]
    ELSE [val |-> Absent, ok |-> FALSE]

\* C23: after any sequence of Set, SetAs and Del calls on a lease, Get on
\* the lease decoded from the encoded lease returns, for every name of a user
\* field, the value of the last Set or SetAs on it (for SetAs as a typed set
\* of the type that was given), and 'not present' when the last call on the
\* name was Del or there was none
C23_MetadataRoundTrip ==
    (meta # NoMeta /\ meta.decoded # Absent) =>
        \A k \in MetaNames \ schemakeys :
            /\ Lease_Get(meta.decoded, k) = expectedGet(meta.last[k])
            /\ meta.last[k].op = "SetAs" =>
                  /\ meta.decoded.explicitfields[k] # Absent
                  /\ meta.decoded.explicitfields[k].at =
                        (IF meta.last[k].typ = "StringSet" THEN "SS"
                         ELSE IF meta.last[k].typ = "NumberSet" THEN "NS" ELSE "BS")

C39_NoNameInBothClauses ==
    (meta # NoMeta /\ meta.expr # Absent)
       => /\ meta.expr.sets \cap meta.expr.rms = {}
          /\ (meta.expr.sets = {} /\ meta.expr.rms = {}) => ~meta.expr.request

----------------------------------------------------------------------------
\* Properties of Start and Stop

\* C19: when the store answers CreateTable with 'table already exists',
\* CreateLeaseTable returns no error after that call (exactly one store call
\* when it is the first answer), and Start goes on as after a creation: it
\* does not fail and both loops are launched
C19_IdempotentCreateTable ==
    /\ (mcall.op = "CreateLeaseTable" /\ mcall.last = "exists") =>
          /\ mcall.pc = "done" /\ mcall.err = "nil"
          /\ mcall.calls = mcall.fails + 1
          /\ mcall.fails = 0 => mcall.calls = 1
    /\ \A w \in Workers :
          (life[w].co = "running" /\ life[w].table \in {"ok", "exists"}) =>
              (life[w].taker \in {"first", "run"} /\ life[w].renewer \in {"first", "run"})
    /\ \A w \in Workers :
          (life[w].co = "starting" \/ life[w].co = "failed") =>
              (mcall.last # "exists" /\ mcall.last # "ok")

\* Start has returned after one CreateTable that was answered with 'table
\* already exists', and the loops are about to run their first ticks
C19_Witness ==
    /\ life["w1"].co = "running" /\ life["w1"].table = "exists"
    /\ life["w1"].taker = "first" /\ life["w1"].renewer = "first"
    /\ mcall.calls = 1 /\ mcall.err = "nil"

\* when Stop has returned both loops have exited and no tick runs
StopIsBarrier ==
    \A w \in Workers :
        life[w].co = "stopped" =>
            /\ life[w].taker = "exited" /\ life[w].renewer = "exited"
            /\ tkPc[w] = "idle" /\ rnPc[w] = "idle"

\* after Stop has returned no tick starts and no store call is made
NoTickAfterStop ==
    \A w \in Workers :
        life[w].co = "stopped" =>
            /\ tkPc'[w] = "idle" /\ rnPc'[w] = "idle"
            /\ store' = store /\ heldLeases'[w] = heldLeases[w]

\* C20: Stop returns only after the taker's loop and the renewer's loop have
\* exited, so that after it has returned no Take() or Renew() tick runs and
\* none starts; and a Stop that is called once after a successful Start
\* returns eventually, when every tick runs to its end
C20_GracefulStop ==
    /\ []StopIsBarrier
    /\ [][NoTickAfterStop]_vars
    /\ \A w \in Workers : (life[w].co = "stopTaker") ~> (life[w].co = "stopped")

\* Stop has returned after it waited for a Take() that had taken a lease, and
\* for the renewer
C20_Witness ==
    /\ life["w1"].co = "stopped"
    /\ life["w1"].taker = "exited" /\ life["w1"].renewer = "exited"
    /\ tkPc["w1"] = "idle" /\ rnPc["w1"] = "idle"
    /\ \E k \in LifeKeys : store[k].owner = "w1" /\ store[k].counter = 2
    /\ heldLeases["w1"] # NoList

\* C22: Start calls CreateLeaseTable first and launches the two loops only
\* when it returned no error: until then, and for ever when it returned an
\* error (Start returns it), no loop runs and no Take() or Renew() tick has
\* touched the taker's view or the held leases; a launched loop can run its
\* first tick at once
C22_StartOrdering ==
    \A w \in Workers :
        /\ life[w].co \in {"new", "starting", "failed"} =>
              /\ life[w].taker = "none" /\ life[w].renewer = "none"
              /\ tkPc[w] = "idle" /\ rnPc[w] = "idle"
              /\ allLeases[w] = NoList /\ heldLeases[w] = NoList
        /\ life[w].co = "failed" => (mcall.pc = "done" /\ mcall.err # "nil")
        /\ (life[w].taker # "none" \/ life[w].renewer # "none") =>
              /\ life[w].taker # "none" /\ life[w].renewer # "none"
              /\ mcall.op = "CreateLeaseTable" /\ mcall.pc = "done" /\ mcall.err = "nil"
        /\ life[w].taker = "first" => ENABLED LoopTake(w)
        /\ life[w].renewer = "first" => ENABLED LoopRenew(w)

\* CreateLeaseTable gave up after maxCreateRetries failed calls and Start
\* returned its error
C22_Witness ==
    /\ life["w1"].co = "failed"
    /\ mcall.op = "CreateLeaseTable" /\ mcall.err # "nil" /\ mcall.calls = maxCreateRetries
    /\ life["w1"].taker = "none" /\ life["w1"].renewer = "none"

\* a Take() tick of w begins in this step
TakeBegins(w) == tkPc[w] = "idle" /\ tkPc'[w] # "idle"

\* a Renew() tick of w begins in this step
RenewBegins(w) == rnPc[w] = "idle" /\ (rnPc'[w] # "idle" \/ rnList'[w] # rnList[w])

\* Stop has been called
StopCalled(w) ==
    life[w].co \in {"stopTaker", "waitTaker", "stopRenewer", "waitRenewer", "stopped"}

\* C21 as stated: once Stop has been called no Take() and no Renew() tick of
\* the coordinator begins, the first tick after Start and the renewer's ticks
\* while Stop waits for the taker's loop included
C21_NoTickAfterStopCalled ==
    [][\A w \in Workers : StopCalled(w) => (~TakeBegins(w) /\ ~RenewBegins(w))]_vars

\* C21, amended: once a loop has received the signal of Stop it begins no
\* tick; while Stop is waiting to send to a loop, that loop begins no tick
\* but its first one (the ticker without delay); the renewer's loop is
\* signalled only after the taker's loop has exited, and ticks until then
C21_NoTickAfterSignal ==
    [][\A w \in Workers :
          /\ TakeBegins(w) =>
                /\ life[w].co \notin {"waitTaker", "stopRenewer", "waitRenewer", "stopped"}
                /\ life[w].co = "stopTaker" => life[w].taker = "first"
          /\ RenewBegins(w) =>
                /\ life[w].co \notin {"waitRenewer", "stopped"}
                /\ life[w].co = "stopRenewer" => life[w].renewer = "first"]_vars

\* Stop has been called and waits to send to the taker's loop while a Take()
\* and a Renew() tick are in flight
C21_Witness ==
    /\ life["w1"].co = "stopTaker" /\ life["w1"].taker = "run"
    /\ tkPc["w1"] # "idle" /\ rnPc["w1"] # "idle"

----------------------------------------------------------------------------
\* Properties of a tick whose ListLeases fails

\* C31: when ListLeases returns an error, Take() returns it with its view
\* unchanged and without an EvictLease or TakeLease call, and Renew() returns
\* it with the held set unchanged and without a RenewLease call
C31_ListFailureNoEffect ==
    [][\A w \in Workers :
          /\ (tkPc[w] = "list" /\ tkPc'[w] # "list" /\ mcall'.err # "nil")
                => /\ life'[w].takeErr
                   /\ allLeases'[w] = allLeases[w]
                   /\ tkPc'[w] = "idle" /\ tkPend'[w] = {}
                   /\ store' = store
          /\ (rnPc[w] = "list" /\ rnPc'[w] # "list" /\ mcall'.err # "nil")
                => /\ life'[w].renewErr
                   /\ heldLeases'[w] = heldLeases[w]
                   /\ rnPc'[w] = "idle" /\ rnPend'[w] = {}
                   /\ store' = store]_vars

\* a Take() that saw leases before has just returned the error of ListLeases,
\* and a Renew() that holds a lease has returned one
C31_Witness ==
    /\ life["w1"].takeErr /\ tkPc["w1"] = "idle" /\ KeysOf(allLeases["w1"]) # {}
    /\ life["w1"].renewErr /\ rnPc["w1"] = "idle" /\ KeysOf(heldLeases["w1"]) # {}

\* C32: a loop ends only when Stop signals it, and after a tick that returned
\* an error the next tick begins unless Stop is called
C32_FailingTickKeepsLoop ==
    /\ [][\A w \in Workers :
             /\ (life[w].taker # "exited" /\ life'[w].taker = "exited")
                   => life[w].co = "stopTaker"
             /\ (life[w].renewer # "exited" /\ life'[w].renewer = "exited")
                   => life[w].co = "stopRenewer"]_vars
    /\ (life["w1"].takeErr /\ life["w1"].co = "running")
          ~> (tkPc["w1"] = "list" \/ life["w1"].co # "running")
    /\ (life["w1"].renewErr /\ life["w1"].co = "running")
          ~> (rnPc["w1"] = "list" \/ life["w1"].co # "running")

\* the taker's loop is running its next tick after a tick of the renewer
\* failed, and the renewer's loop is still in its select
C32_Witness ==
    /\ life["w1"].co = "running"
    /\ life["w1"].renewErr /\ life["w1"].renewer = "run"
    /\ life["w1"].taker = "run" /\ tkPc["w1"] = "choose"
    /\ mcall.op = "ListLeases" /\ mcall.err = "nil" /\ mcall.fails > 0

----------------------------------------------------------------------------
\* Properties of Coordinator.Update

\* C12: Update returns LeaseNotHeld when no held lease has the key of the
\* argument and TokenNotMatch when a held lease has the key and another token;
\* in both cases Manager.UpdateLease is not called and the store is unchanged.
\* Manager.UpdateLease is called exactly when key and token match
C12_GuardedUpdate ==
    [][\A w \in Workers :
          (app[w].res = "none" /\ app'[w].res # "none") =>
              LET l == app[w].lease
                  held == heldLeases[w][l.key]
                  sameToken == heldToken[w][l.key] = app[w].token
              IN /\ held = NoLease =>
                        (app'[w].res = "LeaseNotHeld" /\ ~app'[w].called /\ store' = store)
                 /\ (held # NoLease /\ ~sameToken) =>
                        (app'[w].res = "TokenNotMatch" /\ ~app'[w].called /\ store' = store)
                 /\ app'[w].called <=> (held # NoLease /\ sameToken)]_vars

\* an Update with a lease that was lost and taken again in between: the held
\* lease has a newer token, TokenNotMatch is returned and the user attribute
\* of the argument did not reach the row
C12_Witness ==
    /\ app["w1"].res = "TokenNotMatch"
    /\ ~app["w1"].called
    /\ ~app["w1"].kept
    /\ app["w1"].token > 0
    /\ app["w1"].lease.data = "d1"
    /\ heldLeases["w1"]["k1"] # NoLease
    /\ store["k1"].data = ""

\* C13: when the application took its lease from GetHeldLeases and the key
\* stayed in the held set of the worker from then until Update was called
\* with the lease, over any number of Renew() ticks, Update does not return
\* TokenNotMatch
C13_TokenNotMatchMeansLost ==
    \A w \in Workers : app[w].res = "TokenNotMatch" => ~app[w].kept

\* C38: a write of Update reaches the row of a lease only while the stored
\* owner of the lease is the updating worker
C38_UpdateOnlyOwned ==
    [][\A w \in Workers :
          (/\ app[w].res = "none" /\ app'[w].res = "nil" /\ app'[w].called
           /\ store' # store)
              => /\ store[app[w].lease.key] # NoRow
                 /\ store[app[w].lease.key].owner = w]_vars

----------------------------------------------------------------------------
\* Properties of the renewer

ListedMine(list, w) == {k \in Keys : list[k] # NoLease /\ list[k].owner = w}

C11_HeldWasRenewed ==
    [][\A w \in Workers, k \in Keys :
          (/\ rnPc[w] = "renew"
           /\ k \in rnPend[w] /\ k \notin rnPend'[w]
           /\ heldLeases'[w][k] # NoLease)
              => /\ store[k] # NoRow /\ store'[k] # NoRow
                 /\ store'[k].counter = store[k].counter + 1]_vars

\* Renew() handles the listed lease of key k in this step
Handled(w, k) == rnPc[w] = "renew" /\ k \in rnPend[w] /\ k \notin rnPend'[w]

====
